---- MODULE Spec2Model ----
(***************************************************************************)
(* Verification model of the chicago-budget-explorer pipeline core:        *)
(*   - transformers/trend_enricher.py  (cross-year trend enrichment)       *)
(*   - transformers/city_of_chicago.py (column detection, categorization,  *)
(*                                      transform)                         *)
(*   - validators/budget.py            (hierarchical sum validation)       *)
(*   - cli.py                          (commands and the full pipeline)    *)
(*                                                                         *)
(* Text values that the code inspects (lower-casing, substring tests,      *)
(* slugs) are sequences of one-character strings; amounts of raw rows are  *)
(* counted in half dollars so that int() truncation is observable.         *)
(***************************************************************************)
EXTENDS Integers, Sequences, FiniteSets, TLC

VARIABLES
    year_data,      \* enrich: dict fiscal_year -> BudgetData, as an insertion-ordered item list
    before,         \* enrich: year_data as it was passed to the latest enrich_with_trends call
    first_result,   \* enrich: result of the first enrichment, kept for comparison
    epc,            \* enrich: position in the enrich / round-trip / enrich sequence
    e_dir,          \* enrich_entity: the files of the entity's output directory
    e_writes,       \* enrich_entity: the names of the files opened for writing, in order
    e_return,       \* enrich_entity: the returned count
    columns,        \* detect: df.columns
    det_year,       \* detect: fiscal_year argument
    det_result,     \* detect: returned column or raised error
    dpc,            \* detect: position
    rc_config,      \* revenue categorization: transform_config["revenue_categorization"]
    rc_row,         \* revenue categorization: (revenue_category, fund_name, revenue_source)
    rc_result,      \* revenue categorization: returned (category_key, revenue_type)
    rpc,            \* revenue categorization: position
    t_config,       \* transform: the entity's transform configuration
    df,             \* transform: raw appropriations table
    t_year,         \* transform: fiscal_year argument
    t_prior,        \* transform: optional prior-year table
    t_revenue,      \* transform: optional revenue table
    t_result,       \* transform: returned BudgetData or raised error
    errors,         \* validator.errors
    warnings,       \* validator.warnings
    tpc,            \* transform: position
    c_config,       \* helper call: the entity's transform configuration
    c_call,         \* helper call: the method called and its arguments
    c_result,       \* helper call: the returned value
    cpc,            \* helper call: position
    v_data,         \* validate: the BudgetData argument
    v_prior,        \* validate: the optional prior_data argument
    v_valid,        \* validate: the returned boolean
    v_errors,       \* validate: validator.errors after the call
    v_warnings,     \* validate: validator.warnings after the call
    v_returned,     \* validate: the booleans returned by the calls made so far
    vpc,            \* validate: position
    p_config,       \* pipeline: config["entities"], in configuration order
    p_output,       \* pipeline: the output directory of every entity
    p_manifest,     \* pipeline: output/manifest.json
    p_log,          \* pipeline: the commands all_command has run, with their exit codes
    p_pc,           \* pipeline: the next step of all_command
    p_exit          \* pipeline: the exit code of all_command, once it returned

vars == <<year_data, before, first_result, epc, e_dir, e_writes, e_return, columns, det_year, det_result, dpc,
          rc_config, rc_row, rc_result, rpc,
          t_config, df, t_year, t_prior, t_revenue, t_result,
          errors, warnings, tpc,
          c_config, c_call, c_result, cpc,
          v_data, v_prior, v_valid, v_errors, v_warnings, v_returned, vpc,
          p_config, p_output, p_manifest, p_log, p_pc, p_exit>>

entityVars == <<e_dir, e_writes, e_return>>

enrichVars == <<year_data, before, first_result, epc, e_dir, e_writes, e_return>>

detectVars == <<columns, det_year, det_result, dpc>>

revcatVars == <<rc_config, rc_row, rc_result, rpc>>

transformVars == <<t_config, df, t_year, t_prior, t_revenue, t_result,
                   errors, warnings, tpc>>

callVars == <<c_config, c_call, c_result, cpc>>

validatorVars == <<v_data, v_prior, v_valid, v_errors, v_warnings, v_returned, vpc>>

pipelineVars == <<p_config, p_output, p_manifest, p_log, p_pc, p_exit>>

(***************************************************************************)
(* Optional values (Python None)                                           *)
(***************************************************************************)
None == [is_none |-> TRUE]

Some(x) == [value |-> x]

(***************************************************************************)
(* Generic sequence helpers                                                *)
(***************************************************************************)
Range(s) == {s[i] : i \in 1..Len(s)}

RECURSIVE SumSeq(_)
SumSeq(s) == IF s = <<>> THEN 0 ELSE Head(s) + SumSeq(Tail(s))

RECURSIVE Flatten(_)
Flatten(ss) == IF ss = <<>> THEN <<>> ELSE Head(ss) \o Flatten(Tail(ss))

\* the same sequence, evaluated once into an explicit tuple
AsList(f) == f \o <<>>

SeqsUpTo(S, n) == UNION {[1..k -> S] : k \in 0..n}

\* lists of at most n distinct elements of S
ListsUpTo(S, n) ==
    {s \in SeqsUpTo(S, n) : \A i, j \in 1..Len(s) : i # j => s[i] # s[j]}

(***************************************************************************)
(* Bounds                                                                  *)
(***************************************************************************)
MaxYears == 2

(***************************************************************************)
(* models/schema.py: the parts of the document the pipeline reads/writes.  *)
(* A trend is None or [points |-> <<TrendPoint, ...>>].                    *)
(***************************************************************************)
TrendPoint(fy, amt) == [fiscal_year |-> fy, amount |-> amt]

TrendOf(points) == [points |-> points]

\* Fiscal-year tokens "fyNNNN" are modelled by their four-digit number; the
\* lexical order of the tokens is the numeric order of the numbers.
Years == {2023, 2024, 2025}

(***************************************************************************)
(* Input documents of the enrichment (built as the test helpers build them)*)
(***************************************************************************)
make_subcategory(id, name, amount) ==
    [id |-> id, name |-> name, amount |-> amount, trend |-> None]

DefaultSimulation ==
    [adjustable |-> TRUE, min_pct |-> 50, max_pct |-> 150, step_pct |-> 1,
     constraints |-> <<>>, description |-> "standard"]

make_department(name, code, amount, prior, change, subcategories, trend) ==
    [id |-> <<"dept", name>>, name |-> name, code |-> code, amount |-> amount,
     prior_year_amount |-> prior, change_pct |-> change,
     fund_breakdown |-> <<>>, subcategories |-> subcategories,
     simulation |-> DefaultSimulation, trend |-> trend]

make_revenue_source(id, name, amount, subcategories) ==
    [id |-> id, name |-> name, amount |-> amount, revenue_type |-> "tax",
     subcategories |-> subcategories, fund_breakdown |-> <<>>, trend |-> None]

make_revenue(sources) ==
    Some([by_source |-> sources, by_fund |-> <<>>,
          total_revenue |-> SumSeq([i \in 1..Len(sources) |-> sources[i].amount]),
          local_revenue_only |-> TRUE, grant_revenue_estimated |-> None])

make_budget_data(fiscal_year, departments, revenue) ==
    LET total == SumSeq([i \in 1..Len(departments) |-> departments[i].amount])
    IN [metadata |->
          [entity_id |-> "city-of-chicago", fiscal_year |-> fiscal_year,
           gross_appropriations |-> total, accounting_adjustments |-> 0,
           total_appropriations |-> total, operating_appropriations |-> Some(total),
           fund_category_breakdown |-> <<<<"operating", total>>>>,
           total_revenue |-> IF revenue = None THEN None
                             ELSE Some(revenue.value.total_revenue),
           revenue_surplus_deficit |-> None],
        appropriations |->
          [by_department |-> departments,
           by_fund |-> <<[id |-> "corporate", name |-> "Corporate Fund",
                          amount |-> total, fund_type |-> "operating"]>>],
        revenue |-> revenue,
        schema_version |-> "1.0.0"]

\* Departments offered to the enrichment: one code under two names, a second
\* code, year-over-year fields set, a stale trend left by an earlier run.
Police ==
    make_department("Police", "057", 5, Some(4), Some(25),
        <<make_subcategory("police-salaries", "Salaries", 3),
          make_subcategory("police-overtime", "Overtime", 2)>>, None)

PoliceDepartment ==
    make_department("Police Department", "057", 7, None, None,
        <<make_subcategory("police-salaries", "Salaries", 7)>>, None)

Fire ==
    make_department("Fire", "070", 2, None, None, <<>>,
        TrendOf(<<TrendPoint(2023, 9)>>))

\* by_department lists of one year: empty, one department, two codes, the
\* renamed department, and one code twice in the same year
DepartmentLists ==
    { <<>>, <<Police>>, <<Police, Fire>>, <<Fire, PoliceDepartment>>,
      <<Police, PoliceDepartment>> }

RevenueSet ==
    { None,
      make_revenue(<<make_revenue_source("revenue-property-tax", "Property Tax", 4,
                        <<make_subcategory("prop-levy", "Levy", 4)>>)>>),
      make_revenue(<<make_revenue_source("revenue-property-tax", "Property Tax", 6,
                        <<make_subcategory("prop-levy", "Levy", 6)>>),
                     make_revenue_source("revenue-sales-tax", "Sales Tax", 1, <<>>)>>) }

(***************************************************************************)
(* transformers/trend_enricher.py                                          *)
(* year_data is a Python dict: a list of items with distinct keys, in      *)
(* insertion order.                                                        *)
(***************************************************************************)
Item(fy, data) == [fiscal_year |-> fy, data |-> data]

Keys(yd) == {yd[i].fiscal_year : i \in 1..Len(yd)}

\* list.sort(key=lambda tp: tp.fiscal_year): stable insertion into ascending order
RECURSIVE InsertByYear(_, _)
InsertByYear(tp, sorted) ==
    IF sorted = <<>> THEN <<tp>>
    ELSE IF Head(sorted).fiscal_year <= tp.fiscal_year
         THEN <<Head(sorted)>> \o InsertByYear(tp, Tail(sorted))
         ELSE <<tp>> \o sorted

RECURSIVE SortByYear(_)
SortByYear(points) ==
    IF points = <<>> THEN <<>>
    ELSE LET n == Len(points)
         IN InsertByYear(points[n], SortByYear(SubSeq(points, 1, n - 1)))

\* every (fiscal_year, department) pair in iteration order
DeptObservations(yd) ==
    Flatten([i \in 1..Len(yd) |->
        LET depts == yd[i].data.appropriations.by_department
        IN [j \in 1..Len(depts) |->
               [code |-> depts[j].code,
                point |-> TrendPoint(yd[i].fiscal_year, depts[j].amount)]]])

PointsOfCode(obs, code) ==
    LET HasCode(o) == o.code = code
        sel == SelectSeq(obs, HasCode)
    IN [i \in 1..Len(sel) |-> sel[i].point]

build_department_index_unsorted(yd) ==
    LET obs == DeptObservations(yd)
    IN [code \in {obs[i].code : i \in 1..Len(obs)} |-> PointsOfCode(obs, code)]

build_department_index(yd) ==
    LET obs == DeptObservations(yd)
    IN [code \in {obs[i].code : i \in 1..Len(obs)} |->
           SortByYear(PointsOfCode(obs, code))]

\* mutants of the injection: merge into the trend already there / overwrite the amount
inject_trend_merging(dept, trends_by_code) ==
    IF dept.code \in DOMAIN trends_by_code /\ trends_by_code[dept.code] # <<>>
    THEN [dept EXCEPT !.trend =
            IF dept.trend = None THEN TrendOf(trends_by_code[dept.code])
            ELSE TrendOf(dept.trend.points \o trends_by_code[dept.code])]
    ELSE dept

inject_trend_and_amount(dept, trends_by_code) ==
    IF dept.code \in DOMAIN trends_by_code /\ trends_by_code[dept.code] # <<>>
    THEN LET t == trends_by_code[dept.code]
         IN [dept EXCEPT !.trend = TrendOf(t), !.amount = t[Len(t)].amount]
    ELSE dept

\* trend = trends_by_code.get(dept.code); if trend: dept.trend = trend
inject_trend(dept, trends_by_code) ==
    IF dept.code \in DOMAIN trends_by_code /\ trends_by_code[dept.code] # <<>>
    THEN [dept EXCEPT !.trend = TrendOf(trends_by_code[dept.code])]
    ELSE dept

enrich_with_trends(yd) ==
    IF yd = <<>> THEN yd
    ELSE LET trends_by_code == build_department_index(yd)
         IN [i \in 1..Len(yd) |->
               [yd[i] EXCEPT !.data.appropriations.by_department =
                   [j \in 1..Len(@) |-> inject_trend(@[j], trends_by_code)]]]

(***************************************************************************)
(* JSON round trip: model_dump_json, then json.loads and BudgetData(...).   *)
(* A JSON value is [null], [num], [str], [bool], [arr] or [obj] (the       *)
(* object's members as a record).                                         *)
(***************************************************************************)
JNull == [null |-> TRUE]

JNum(n) == [num |-> n]

JStr(s) == [str |-> s]

JBool(b) == [bool |-> b]

JArr(values) == [arr |-> values]

JObj(members) == [obj |-> members]

JGet(o, key) == o.obj[key]

DumpOptNum(v) == IF v = None THEN JNull ELSE JNum(v.value)

ParseOptNum(j) == IF j = JNull THEN None ELSE Some(j.num)

DumpList(xs, Dump(_)) == JArr(AsList([i \in 1..Len(xs) |-> Dump(xs[i])]))

ParseList(j, Parse(_)) == AsList([i \in 1..Len(j.arr) |-> Parse(j.arr[i])])

DumpTrendPoint(tp) ==
    JObj([fiscal_year |-> JStr(tp.fiscal_year), amount |-> JNum(tp.amount)])

ParseTrendPoint(j) == TrendPoint(JGet(j, "fiscal_year").str, JGet(j, "amount").num)

DumpTrend(t) == IF t = None THEN JNull ELSE DumpList(t.points, DumpTrendPoint)

ParseTrend(j) == IF j = JNull THEN None ELSE TrendOf(ParseList(j, ParseTrendPoint))

DumpSubcategory(sc) ==
    JObj([id |-> JStr(sc.id), name |-> JStr(sc.name),
            amount |-> JNum(sc.amount), trend |-> DumpTrend(sc.trend)])

ParseSubcategory(j) ==
    [id |-> JGet(j, "id").str, name |-> JGet(j, "name").str,
     amount |-> JGet(j, "amount").num, trend |-> ParseTrend(JGet(j, "trend"))]

DumpFundBreakdown(fb) ==
    JObj([fund_id |-> JStr(fb.fund_id), fund_name |-> JStr(fb.fund_name),
            amount |-> JNum(fb.amount)])

ParseFundBreakdown(j) ==
    [fund_id |-> JGet(j, "fund_id").str, fund_name |-> JGet(j, "fund_name").str,
     amount |-> JGet(j, "amount").num]

DumpSimulation(sim) ==
    JObj([adjustable |-> JBool(sim.adjustable), min_pct |-> JNum(sim.min_pct),
            max_pct |-> JNum(sim.max_pct), step_pct |-> JNum(sim.step_pct),
            constraints |-> JArr(sim.constraints),
            description |-> JStr(sim.description)])

ParseSimulation(j) ==
    [adjustable |-> JGet(j, "adjustable").bool, min_pct |-> JGet(j, "min_pct").num,
     max_pct |-> JGet(j, "max_pct").num, step_pct |-> JGet(j, "step_pct").num,
     constraints |-> JGet(j, "constraints").arr,
     description |-> JGet(j, "description").str]

DumpDepartment(d) ==
    JObj([id |-> JStr(d.id), name |-> JStr(d.name), code |-> JStr(d.code),
            amount |-> JNum(d.amount),
            prior_year_amount |-> DumpOptNum(d.prior_year_amount),
            change_pct |-> DumpOptNum(d.change_pct),
            fund_breakdown |-> DumpList(d.fund_breakdown, DumpFundBreakdown),
            subcategories |-> DumpList(d.subcategories, DumpSubcategory),
            simulation |-> DumpSimulation(d.simulation),
            trend |-> DumpTrend(d.trend)])

ParseDepartment(j) ==
    [id |-> JGet(j, "id").str, name |-> JGet(j, "name").str,
     code |-> JGet(j, "code").str, amount |-> JGet(j, "amount").num,
     prior_year_amount |-> ParseOptNum(JGet(j, "prior_year_amount")),
     change_pct |-> ParseOptNum(JGet(j, "change_pct")),
     fund_breakdown |-> ParseList(JGet(j, "fund_breakdown"), ParseFundBreakdown),
     subcategories |-> ParseList(JGet(j, "subcategories"), ParseSubcategory),
     simulation |-> ParseSimulation(JGet(j, "simulation")),
     trend |-> ParseTrend(JGet(j, "trend"))]

DumpFundSummary(f) ==
    JObj([id |-> JStr(f.id), name |-> JStr(f.name),
            amount |-> JNum(f.amount), fund_type |-> JStr(f.fund_type)])

ParseFundSummary(j) ==
    [id |-> JGet(j, "id").str, name |-> JGet(j, "name").str,
     amount |-> JGet(j, "amount").num, fund_type |-> JGet(j, "fund_type").str]

DumpRevenueSource(rs) ==
    JObj([id |-> JStr(rs.id), name |-> JStr(rs.name),
            amount |-> JNum(rs.amount), revenue_type |-> JStr(rs.revenue_type),
            subcategories |-> DumpList(rs.subcategories, DumpSubcategory),
            fund_breakdown |-> DumpList(rs.fund_breakdown, DumpFundBreakdown),
            trend |-> DumpTrend(rs.trend)])

ParseRevenueSource(j) ==
    [id |-> JGet(j, "id").str, name |-> JGet(j, "name").str,
     amount |-> JGet(j, "amount").num, revenue_type |-> JGet(j, "revenue_type").str,
     subcategories |-> ParseList(JGet(j, "subcategories"), ParseSubcategory),
     fund_breakdown |-> ParseList(JGet(j, "fund_breakdown"), ParseFundBreakdown),
     trend |-> ParseTrend(JGet(j, "trend"))]

DumpRevenue(r) ==
    IF r = None THEN JNull
    ELSE JObj([by_source |-> DumpList(r.value.by_source, DumpRevenueSource),
                 by_fund |-> DumpList(r.value.by_fund, DumpFundSummary),
                 total_revenue |-> JNum(r.value.total_revenue),
                 local_revenue_only |-> JBool(r.value.local_revenue_only),
                 grant_revenue_estimated |-> DumpOptNum(r.value.grant_revenue_estimated)])

ParseRevenue(j) ==
    IF j = JNull THEN None
    ELSE Some([by_source |-> ParseList(JGet(j, "by_source"), ParseRevenueSource),
               by_fund |-> ParseList(JGet(j, "by_fund"), ParseFundSummary),
               total_revenue |-> JGet(j, "total_revenue").num,
               local_revenue_only |-> JGet(j, "local_revenue_only").bool,
               grant_revenue_estimated |->
                   ParseOptNum(JGet(j, "grant_revenue_estimated"))])

DumpCategoryAmount(pair) == JArr(<<JStr(pair[1]), JNum(pair[2])>>)

ParseCategoryAmount(j) == <<j.arr[1].str, j.arr[2].num>>

DumpMetadata(m) ==
    JObj([entity_id |-> JStr(m.entity_id), fiscal_year |-> JStr(m.fiscal_year),
            gross_appropriations |-> JNum(m.gross_appropriations),
            accounting_adjustments |-> JNum(m.accounting_adjustments),
            total_appropriations |-> JNum(m.total_appropriations),
            operating_appropriations |-> DumpOptNum(m.operating_appropriations),
            fund_category_breakdown |-> DumpList(m.fund_category_breakdown, DumpCategoryAmount),
            total_revenue |-> DumpOptNum(m.total_revenue),
            revenue_surplus_deficit |-> DumpOptNum(m.revenue_surplus_deficit)])

ParseMetadata(j) ==
    [entity_id |-> JGet(j, "entity_id").str, fiscal_year |-> JGet(j, "fiscal_year").str,
     gross_appropriations |-> JGet(j, "gross_appropriations").num,
     accounting_adjustments |-> JGet(j, "accounting_adjustments").num,
     total_appropriations |-> JGet(j, "total_appropriations").num,
     operating_appropriations |-> ParseOptNum(JGet(j, "operating_appropriations")),
     fund_category_breakdown |->
         ParseList(JGet(j, "fund_category_breakdown"), ParseCategoryAmount),
     total_revenue |-> ParseOptNum(JGet(j, "total_revenue")),
     revenue_surplus_deficit |-> ParseOptNum(JGet(j, "revenue_surplus_deficit"))]

model_dump_json(data) ==
    JObj([metadata |-> DumpMetadata(data.metadata),
            appropriations |-> JObj([by_department |-> DumpList(data.appropriations.by_department, DumpDepartment),
                      by_fund |-> DumpList(data.appropriations.by_fund, DumpFundSummary)]),
            revenue |-> DumpRevenue(data.revenue),
            schema_version |-> JStr(data.schema_version)])

BudgetDataFromJson(j) ==
    [metadata |-> ParseMetadata(JGet(j, "metadata")),
     appropriations |->
        [by_department |->
            ParseList(JGet(JGet(j, "appropriations"), "by_department"), ParseDepartment),
         by_fund |->
            ParseList(JGet(JGet(j, "appropriations"), "by_fund"), ParseFundSummary)],
     revenue |-> ParseRevenue(JGet(j, "revenue")),
     schema_version |-> JGet(j, "schema_version").str]

\* {fy: data.model_dump_json() for fy, data in result.items()}
SerializeAll(yd) ==
    AsList([i \in 1..Len(yd) |-> Item(yd[i].fiscal_year, model_dump_json(yd[i].data))])

\* {fy: BudgetData(json.loads(text)) for fy, text in serialized.items()}
ParseAll(js) ==
    AsList([i \in 1..Len(js) |-> Item(js[i].fiscal_year, BudgetDataFromJson(js[i].data))])

(***************************************************************************)
(* trend_enricher.py: load_all_years and enrich_entity. A directory is a   *)
(* set of files [name, text]; the file fyNNNN.json has the name            *)
(* <<"fy", NNNN>>, any other file a name with another first component.     *)
(***************************************************************************)
File(name, text) == [name |-> name, text |-> text]

\* the files the transforms of the years wrote
DirectoryOf(yd) ==
    {File(<<"fy", yd[i].fiscal_year>>, model_dump_json(yd[i].data)) : i \in 1..Len(yd)}

\* what else the directory holds: nothing, or the manifest
OtherFiles == { {}, {File(<<"manifest", 0>>, JObj([entities |-> JArr(<<>>)]))} }

\* entity_output_dir.glob("fy*.json")
YearFiles(dir) == {f \in dir : f.name[1] = "fy"}

RECURSIVE SortedByName(_)
SortedByName(files) ==
    IF files = {} THEN <<>>
    ELSE LET first == CHOOSE f \in files : \A g \in files : f.name[2] <= g.name[2]
         IN <<first>> \o SortedByName(files \ {first})

\* the year documents of the directory, keyed by file stem, ascending
load_all_years(dir) ==
    LET json_files == SortedByName(YearFiles(dir))
    IN AsList([i \in 1..Len(json_files) |->
                 Item(json_files[i].name[2], BudgetDataFromJson(json_files[i].text))])

\* open(entity_output_dir / f"{fiscal_year}.json", "w") and json.dump
WriteFile(dir, name, text) == {f \in dir : f.name # name} \cup {File(name, text)}

RECURSIVE WriteAll(_, _)
WriteAll(dir, items) ==
    IF items = <<>> THEN dir
    ELSE WriteAll(WriteFile(dir, <<"fy", Head(items).fiscal_year>>,
                            model_dump_json(Head(items).data)), Tail(items))

\* mutant: the count returned is that of all files of the directory
enrich_entity_counting_all(dir) ==
    LET loaded == load_all_years(dir)
    IN IF loaded = <<>> THEN [returned |-> Cardinality(dir), writes |-> <<>>, dir |-> dir]
       ELSE [returned |-> Cardinality(dir),
             writes |-> AsList([i \in 1..Len(loaded) |-> <<"fy", loaded[i].fiscal_year>>]),
             dir |-> WriteAll(dir, enrich_with_trends(loaded))]

enrich_entity(dir) ==
    LET loaded == load_all_years(dir)
    IN IF loaded = <<>> THEN [returned |-> 0, writes |-> <<>>, dir |-> dir]
       ELSE [returned |-> Len(enrich_with_trends(loaded)),
             writes |-> AsList([i \in 1..Len(loaded) |-> <<"fy", loaded[i].fiscal_year>>]),
             dir |-> WriteAll(dir, enrich_with_trends(loaded))]

(***************************************************************************)
(* Enrichment specification: build a year set, enrich it, round-trip the   *)
(* result through its serialization, enrich again.                         *)
(***************************************************************************)
EnrichIdle ==
    /\ year_data = <<>>
    /\ before = <<>>
    /\ first_result = <<>>
    /\ epc = "idle"
    /\ e_dir = {}
    /\ e_writes = <<>>
    /\ e_return = None

DetectIdle ==
    /\ columns = <<>>
    /\ det_year = 0
    /\ det_result = None
    /\ dpc = "idle"

TransformIdle ==
    /\ t_config = <<>>
    /\ df = <<>>
    /\ t_year = <<>>
    /\ t_prior = <<>>
    /\ t_revenue = <<>>
    /\ t_result = <<>>
    /\ errors = <<>>
    /\ warnings = <<>>
    /\ tpc = "idle"

RevcatIdle ==
    /\ rc_config = <<>>
    /\ rc_row = <<>>
    /\ rc_result = <<>>
    /\ rpc = "idle"

CallIdle ==
    /\ c_config = <<>>
    /\ c_call = <<>>
    /\ c_result = <<>>
    /\ cpc = "idle"

PipelineIdle ==
    /\ p_config = <<>>
    /\ p_output = <<>>
    /\ p_manifest = <<>>
    /\ p_log = <<>>
    /\ p_pc = 0
    /\ p_exit = <<>>

ValidatorIdle ==
    /\ v_data = <<>>
    /\ v_prior = <<>>
    /\ v_valid = FALSE
    /\ v_errors = <<>>
    /\ v_warnings = <<>>
    /\ v_returned = <<>>
    /\ vpc = "idle"

InitEnrich ==
    /\ year_data = <<>>
    /\ before = <<>>
    /\ first_result = <<>>
    /\ epc = "input"
    /\ e_dir = {}
    /\ e_writes = <<>>
    /\ e_return = None
    /\ DetectIdle
    /\ RevcatIdle
    /\ TransformIdle
    /\ CallIdle
    /\ ValidatorIdle
    /\ PipelineIdle

\* year_data[fy] = make_budget_data(fy, departments, revenue) for a new key
AddYear ==
    /\ epc = "input"
    /\ Len(year_data) < MaxYears
    /\ \E fy \in Years \ Keys(year_data), rev \in RevenueSet,
          depts \in DepartmentLists :
          year_data' = Append(year_data, Item(fy, make_budget_data(fy, depts, rev)))
    /\ UNCHANGED <<before, first_result, epc, entityVars, detectVars, revcatVars, transformVars, callVars, validatorVars, pipelineVars>>

EnrichWithTrends ==
    /\ epc \in {"input", "reparsed"}
    /\ before' = year_data
    /\ year_data' = enrich_with_trends(year_data)
    /\ epc' = IF epc = "input" THEN "enriched" ELSE "reenriched"
    /\ UNCHANGED <<first_result, entityVars, detectVars, revcatVars, transformVars, callVars, validatorVars, pipelineVars>>

RoundTrip ==
    /\ epc = "enriched"
    /\ first_result' = year_data
    /\ year_data' = ParseAll(SerializeAll(year_data))
    /\ epc' = "reparsed"
    /\ UNCHANGED <<before, entityVars, detectVars, revcatVars, transformVars, callVars, validatorVars, pipelineVars>>

\* enrich_entity(entity_output_dir) on the directory that holds the year
\* documents built so far, with or without a file that is no year document
EnrichEntity ==
    /\ epc = "input"
    /\ \E others \in OtherFiles :
          LET result == enrich_entity(DirectoryOf(year_data) \cup others)
          IN /\ e_dir' = result.dir
             /\ e_writes' = result.writes
             /\ e_return' = Some(result.returned)
    /\ epc' = "entity_enriched"
    /\ UNCHANGED <<year_data, before, first_result, detectVars, revcatVars, transformVars, callVars, validatorVars, pipelineVars>>

NextEnrich == AddYear \/ EnrichWithTrends \/ RoundTrip \/ EnrichEntity

SpecEnrich == InitEnrich /\ [][NextEnrich]_vars

(***************************************************************************)
(* Enrichment claims                                                       *)
(***************************************************************************)
Enriched == epc \in {"enriched", "reenriched"}

Departments(data) == data.appropriations.by_department

RevenueSources(data) == IF data.revenue = None THEN <<>> ELSE data.revenue.value.by_source

\* every subcategory of a document: those of departments, then those of revenue sources
Subcategories(data) ==
    Flatten([j \in 1..Len(Departments(data)) |-> Departments(data)[j].subcategories])
    \o Flatten([j \in 1..Len(RevenueSources(data)) |-> RevenueSources(data)[j].subcategories])

Ascending(points) ==
    \A a, b \in 1..Len(points) : a < b => points[a].fiscal_year <= points[b].fiscal_year

Count(s, x) == Cardinality({i \in 1..Len(s) : s[i] = x})

\* C1: enriching the serialized and re-parsed result of an enrichment yields,
\* for every fiscal year, a document with the same serialization as the first run.
C1_Idempotent ==
    epc = "reenriched" => SerializeAll(year_data) = SerializeAll(first_result)

C1_Witness ==
    /\ epc = "reenriched"
    /\ Len(year_data) >= 2
    /\ \E i \in 1..Len(year_data) : \E j \in 1..Len(Departments(year_data[i].data)) :
          LET d == Departments(year_data[i].data)[j]
          IN d.trend # None /\ Len(d.trend.points) >= 2

\* a document with every trend field cleared
StripTrends(data) ==
    LET StripSub(sc) == [sc EXCEPT !.trend = None]
        StripSubs(scs) == [k \in 1..Len(scs) |-> StripSub(scs[k])]
        StripDept(d) == [d EXCEPT !.trend = None, !.subcategories = StripSubs(@)]
        StripSource(rs) == [rs EXCEPT !.trend = None, !.subcategories = StripSubs(@)]
    IN [data EXCEPT
            !.appropriations.by_department = [j \in 1..Len(@) |-> StripDept(@[j])],
            !.revenue = IF @ = None THEN None
                        ELSE Some([@.value EXCEPT !.by_source =
                                [j \in 1..Len(@) |-> StripSource(@[j])]])]

\* C2: enrichment changes nothing but trend fields: same years, and in every
\* document the same metadata, schema_version, departments, revenue sources,
\* funds and subcategories in the same order with the same ids, names, codes,
\* amounts and year-over-year fields; revenue None stays None.
C2_OnlyTrendFieldsChange ==
    Enriched =>
        /\ Len(year_data) = Len(before)
        /\ \A i \in 1..Len(year_data) :
              /\ year_data[i].fiscal_year = before[i].fiscal_year
              /\ StripTrends(year_data[i].data) = StripTrends(before[i].data)
              /\ before[i].data.revenue = None => year_data[i].data.revenue = None

C2_Witness ==
    /\ epc = "enriched"
    /\ year_data # before
    /\ \E i \in 1..Len(year_data) : year_data[i].data.revenue = None
    /\ \E i \in 1..Len(year_data) : year_data[i].data.revenue # None
    /\ \E i \in 1..Len(year_data) : \E j \in 1..Len(Departments(year_data[i].data)) :
          Departments(year_data[i].data)[j].prior_year_amount # None

\* the years of yd whose document has a subcategory with this id
YearsWithSubcategory(yd, id) ==
    {i \in 1..Len(yd) :
        \E k \in 1..Len(Subcategories(yd[i].data)) : Subcategories(yd[i].data)[k].id = id}

\* C3: after enrichment a subcategory whose id occurs in exactly one year has
\* trend None, and one whose id occurs in k >= 2 years has a trend of exactly
\* k points sorted ascending by fiscal year.
C3_SubcategoryTrendBoundary ==
    Enriched =>
        \A i \in 1..Len(year_data) : \A k \in 1..Len(Subcategories(year_data[i].data)) :
            LET sc == Subcategories(year_data[i].data)[k]
                n == Cardinality(YearsWithSubcategory(year_data, sc.id))
            IN /\ n = 1 => sc.trend = None
               /\ n >= 2 => /\ sc.trend # None
                            /\ Len(sc.trend.points) = n
                            /\ Ascending(sc.trend.points)

RevenueYears(yd, id) ==
    {yd[i].fiscal_year : i \in
        {i \in 1..Len(yd) :
            \E k \in 1..Len(RevenueSources(yd[i].data)) :
                RevenueSources(yd[i].data)[k].id = id}}

\* C5: after enrichment every revenue source of a year with revenue carries a
\* trend with one point for exactly the years whose revenue contains its id,
\* sorted ascending; a year with revenue None keeps revenue None.
C5_RevenueTrendBySourceId ==
    Enriched =>
        \A i \in 1..Len(year_data) :
            /\ before[i].data.revenue = None => year_data[i].data.revenue = None
            /\ \A k \in 1..Len(RevenueSources(year_data[i].data)) :
                  LET rs == RevenueSources(year_data[i].data)[k]
                  IN /\ rs.trend # None
                     /\ {rs.trend.points[a].fiscal_year : a \in 1..Len(rs.trend.points)}
                            = RevenueYears(year_data, rs.id)
                     /\ Len(rs.trend.points) = Cardinality(RevenueYears(year_data, rs.id))
                     /\ Ascending(rs.trend.points)

(***************************************************************************)
(* Text: a Python str is a sequence of one-character strings.              *)
(***************************************************************************)
UpperChars == <<"A", "B", "C", "D", "E", "F", "G", "H", "I", "J", "K", "L", "M", "N", "O", "P", "Q", "R", "S", "T", "U", "V", "W", "X", "Y", "Z">>

LowerChars == <<"a", "b", "c", "d", "e", "f", "g", "h", "i", "j", "k", "l", "m", "n", "o", "p", "q", "r", "s", "t", "u", "v", "w", "x", "y", "z">>

DigitChars == <<"0", "1", "2", "3", "4", "5", "6", "7", "8", "9">>

UpperSet == Range(UpperChars)

LowerSet == Range(LowerChars)

DigitSet == Range(DigitChars)

IsUpperChar(c) == c \in UpperSet

IsLowerChar(c) == c \in LowerSet

IsDigitChar(c) == c \in DigitSet

ToLower == [c \in UpperSet |-> LowerChars[CHOOSE i \in 1..Len(UpperChars) : UpperChars[i] = c]]

ToUpper == [c \in LowerSet |-> UpperChars[CHOOSE i \in 1..Len(LowerChars) : LowerChars[i] = c]]

LowerChar(c) == IF IsUpperChar(c) THEN ToLower[c] ELSE c

UpperChar(c) == IF IsLowerChar(c) THEN ToUpper[c] ELSE c

\* str.lower() / str.upper()
lower(s) == AsList([i \in 1..Len(s) |-> LowerChar(s[i])])

upper(s) == AsList([i \in 1..Len(s) |-> UpperChar(s[i])])

\* sub in s
Contains(sub, s) ==
    \E i \in 0..(Len(s) - Len(sub)) : SubSeq(s, i + 1, i + Len(sub)) = sub

StartsWith(s, prefix) == Len(prefix) <= Len(s) /\ SubSeq(s, 1, Len(prefix)) = prefix

\* s.replace(old, ""), for a non-empty old
RECURSIVE RemoveAll(_, _)
RemoveAll(s, old) ==
    IF s = <<>> THEN <<>>
    ELSE IF StartsWith(s, old) THEN RemoveAll(SubSeq(s, Len(old) + 1, Len(s)), old)
    ELSE <<Head(s)>> \o RemoveAll(Tail(s), old)

\* s.strip(c)
RECURSIVE StripLeft(_, _)
StripLeft(s, c) == IF s # <<>> /\ Head(s) = c THEN StripLeft(Tail(s), c) ELSE s

RECURSIVE StripRight(_, _)
StripRight(s, c) ==
    IF s # <<>> /\ s[Len(s)] = c THEN StripRight(SubSeq(s, 1, Len(s) - 1), c) ELSE s

Strip(s, c) == StripRight(StripLeft(s, c), c)

\* str(n) for 0 <= n <= 9999 written with four digits, and int(digits)
DigitsOf(n) ==
    <<DigitChars[((n \div 1000) % 10) + 1], DigitChars[((n \div 100) % 10) + 1],
      DigitChars[((n \div 10) % 10) + 1], DigitChars[(n % 10) + 1]>>

DigitValue(c) == (CHOOSE i \in 1..Len(DigitChars) : DigitChars[i] = c) - 1

RECURSIVE IntOf(_)
IntOf(digits) ==
    IF digits = <<>> THEN 0
    ELSE 10 * IntOf(SubSeq(digits, 1, Len(digits) - 1)) + DigitValue(digits[Len(digits)])

\* the fiscal-year token "fyNNNN" of a year number
FyToken(year) == <<"f", "y">> \o DigitsOf(year)

(***************************************************************************)
(* city_of_chicago.py: detect_amount_column                                *)
(***************************************************************************)
AmountPatterns(year_num) ==
    << year_num \o <<"_", "o", "r", "d", "i", "n", "a", "n", "c", "e">>,
       <<"o", "r", "d", "i", "n", "a", "n", "c", "e", "_", "a", "m", "o", "u", "n", "t", "_">> \o year_num,
       year_num \o <<"_", "r", "e", "c", "o", "m", "m", "e", "n", "d", "a", "t", "i", "o", "n">>,
       <<"o", "r", "d", "i", "n", "a", "n", "c", "e", "_", "a", "m", "o", "u", "n", "t">>,
       <<"e", "s", "t", "i", "m", "a", "t", "e", "d", "_", "r", "e", "v", "e", "n", "u", "e">>,
       <<"a", "m", "o", "u", "n", "t">> >>

ColumnError(cols) == [error |-> "Could not detect amount column", columns |-> cols]

\* the columns (in table order) whose lower-cased name contains the pattern
MatchingColumns(cols, pattern) ==
    LET Matches(col) == Contains(pattern, lower(col))
    IN SelectSeq(cols, Matches)

RECURSIVE FirstPatternMatch(_, _)
FirstPatternMatch(cols, patterns) ==
    IF patterns = <<>> THEN ColumnError(cols)
    ELSE LET matches == MatchingColumns(cols, Head(patterns))
         IN IF matches # <<>> THEN Some(matches[1])
            ELSE FirstPatternMatch(cols, Tail(patterns))

\* mutant: scan column by column, taking the first column that contains any pattern
detect_amount_column_by_column(cols, fiscal_year) ==
    LET patterns == AmountPatterns(RemoveAll(fiscal_year, <<"f", "y">>))
        AnyPattern(col) == \E k \in 1..Len(patterns) : Contains(patterns[k], lower(col))
        matches == SelectSeq(cols, AnyPattern)
    IN IF matches # <<>> THEN Some(matches[1]) ELSE ColumnError(cols)

detect_amount_column(cols, fiscal_year) ==
    FirstPatternMatch(cols, AmountPatterns(RemoveAll(fiscal_year, <<"f", "y">>)))

\* column names offered to the detection
ColumnNames ==
    { <<"2", "0", "2", "5", "_", "o", "r", "d", "i", "n", "a", "n", "c", "e">>, <<"O", "R", "D", "I", "N", "A", "N", "C", "E", "_", "A", "M", "O", "U", "N", "T", "_", "2", "0", "2", "5">>, <<"2", "0", "2", "5", "_", "r", "e", "c", "o", "m", "m", "e", "n", "d", "a", "t", "i", "o", "n">>,
      <<"O", "r", "d", "i", "n", "a", "n", "c", "e", "_", "A", "m", "o", "u", "n", "t">>, <<"e", "s", "t", "i", "m", "a", "t", "e", "d", "_", "r", "e", "v", "e", "n", "u", "e">>, <<"a", "m", "o", "u", "n", "t">>,
      <<"2", "0", "2", "4", "_", "o", "r", "d", "i", "n", "a", "n", "c", "e">>, <<"d", "e", "p", "a", "r", "t", "m", "e", "n", "t", "_", "n", "a", "m", "e">> }

MaxCols == 3

InitDetect ==
    /\ columns \in ListsUpTo(ColumnNames, MaxCols)
    /\ det_year \in {2024, 2025}
    /\ det_result = None
    /\ dpc = "input"
    /\ EnrichIdle
    /\ RevcatIdle
    /\ TransformIdle
    /\ CallIdle
    /\ ValidatorIdle
    /\ PipelineIdle

DetectAmountColumn ==
    /\ dpc = "input"
    /\ det_result' = detect_amount_column(columns, FyToken(det_year))
    /\ dpc' = "done"
    /\ UNCHANGED <<columns, det_year, enrichVars, revcatVars, transformVars, callVars, validatorVars, pipelineVars>>

NextDetect == DetectAmountColumn

SpecDetect == InitDetect /\ [][NextDetect]_vars

\* the positions, in the ordered pattern list, of the patterns some column contains
MatchedPatterns(cols, year) ==
    LET patterns == AmountPatterns(DigitsOf(year))
    IN {k \in 1..Len(patterns) : \E c \in Range(cols) : Contains(patterns[k], lower(c))}

\* C9: detection goes pattern by pattern: the returned column contains the
\* earliest pattern of the ordered list that any column contains, whatever the
\* column order (["amount", "2025_ordinance"] in either order gives
\* "2025_ordinance" for fy2025); with no matching pattern it raises an error
\* listing the columns.
C9_PatternByPattern ==
    dpc = "done" =>
        LET matched == MatchedPatterns(columns, det_year)
            patterns == AmountPatterns(DigitsOf(det_year))
        IN /\ matched = {} => det_result = ColumnError(columns)
           /\ matched # {} =>
                LET first == CHOOSE k \in matched : \A m \in matched : k <= m
                IN /\ det_result # ColumnError(columns)
                   /\ det_result.value \in Range(columns)
                   /\ Contains(patterns[first], lower(det_result.value))
           /\ (det_year = 2025 /\ Range(columns) = {<<"a", "m", "o", "u", "n", "t">>, <<"2", "0", "2", "5", "_", "o", "r", "d", "i", "n", "a", "n", "c", "e">>})
                => det_result = Some(<<"2", "0", "2", "5", "_", "o", "r", "d", "i", "n", "a", "n", "c", "e">>)

C9_Witness ==
    /\ dpc = "done"
    /\ det_year = 2025
    /\ columns = <<<<"a", "m", "o", "u", "n", "t">>, <<"2", "0", "2", "5", "_", "o", "r", "d", "i", "n", "a", "n", "c", "e">>>>
    /\ det_result = Some(<<"2", "0", "2", "5", "_", "o", "r", "d", "i", "n", "a", "n", "c", "e">>)

(***************************************************************************)
(* city_of_chicago.py: pattern lists and revenue categorization.           *)
(* A Python dict is an ordered list of <<key, value>> with distinct keys.  *)
(***************************************************************************)
DictKeys(d) == {d[i][1] : i \in 1..Len(d)}

DictGet(d, key) == d[CHOOSE i \in 1..Len(d) : d[i][1] = key][2]

\* one pattern of _matches_fund_list: wildcard patterns are substring tests
matches_pattern(fund_name, pattern) ==
    IF Contains(<<"*">>, pattern)
    THEN Contains(lower(Strip(pattern, "*")), lower(fund_name))
    ELSE fund_name = pattern

matches_fund_list(fund_name, fund_list) ==
    \E i \in 1..Len(fund_list) : matches_pattern(fund_name, fund_list[i])

\* display_categories[category_key].get("revenue_type", "other")
revenue_type_of(display_categories, category_key) ==
    LET entry == DictGet(display_categories, category_key)
    IN IF "revenue_type" \in DOMAIN entry THEN entry.revenue_type ELSE "other"

\* for category_key, patterns in categories.items(): the first category whose
\* patterns match the label and that display_categories knows (0 if none)
FirstDisplayedMatch(label, categories, display_categories) ==
    LET hits == {i \in 1..Len(categories) :
                    /\ matches_fund_list(label, categories[i][2])
                    /\ categories[i][1] \in DictKeys(display_categories)}
    IN IF hits = {} THEN 0 ELSE CHOOSE i \in hits : \A h \in hits : i <= h

Uncategorized == <<<<"u", "n", "c", "a", "t", "e", "g", "o", "r", "i", "z", "e", "d">>, "other">>

fund_stage(rev_config, fund_name) ==
    LET display == rev_config.display_categories
        hit == FirstDisplayedMatch(fund_name, rev_config.fund_based_categories, display)
    IN IF hit # 0
       THEN LET key == rev_config.fund_based_categories[hit][1]
            IN <<key, revenue_type_of(display, key)>>
       ELSE Uncategorized

\* mutant: a mapped category key is returned without looking it up in
\* display_categories
category_field_stage_undisplayed(rev_config, revenue_category, fund_name) ==
    LET display == rev_config.display_categories
        stripped == Strip(revenue_category, " ")
        mapping == rev_config.category_field_mapping
    IN IF stripped # <<>> /\ stripped \in DictKeys(mapping)
       THEN <<DictGet(mapping, stripped),
              IF DictGet(mapping, stripped) \in DictKeys(display)
              THEN revenue_type_of(display, DictGet(mapping, stripped)) ELSE "other">>
       ELSE fund_stage(rev_config, fund_name)

category_field_stage(rev_config, revenue_category, fund_name) ==
    LET display == rev_config.display_categories
        stripped == Strip(revenue_category, " ")
        mapping == rev_config.category_field_mapping
    IN IF /\ revenue_category # <<>> /\ stripped # <<>>
          /\ stripped \in DictKeys(mapping)
          /\ DictGet(mapping, stripped) # <<>>
          /\ DictGet(mapping, stripped) \in DictKeys(display)
       THEN <<DictGet(mapping, stripped), revenue_type_of(display, DictGet(mapping, stripped))>>
       ELSE fund_stage(rev_config, fund_name)

\* mutant: the dataset's category field is consulted before the source overrides
categorize_revenue_row_field_first(rev_config, revenue_category, fund_name, revenue_source) ==
    LET display == rev_config.display_categories
        stripped == Strip(revenue_category, " ")
        mapping == rev_config.category_field_mapping
        hit == FirstDisplayedMatch(revenue_source, rev_config.source_overrides, display)
    IN IF /\ stripped # <<>> /\ stripped \in DictKeys(mapping)
          /\ DictGet(mapping, stripped) \in DictKeys(display)
       THEN <<DictGet(mapping, stripped), revenue_type_of(display, DictGet(mapping, stripped))>>
       ELSE IF hit # 0
       THEN <<rev_config.source_overrides[hit][1],
              revenue_type_of(display, rev_config.source_overrides[hit][1])>>
       ELSE fund_stage(rev_config, fund_name)

categorize_revenue_row(rev_config, revenue_category, fund_name, revenue_source) ==
    LET display == rev_config.display_categories
        hit == FirstDisplayedMatch(revenue_source, rev_config.source_overrides, display)
    IN IF hit # 0
       THEN LET key == rev_config.source_overrides[hit][1]
            IN <<key, revenue_type_of(display, key)>>
       ELSE category_field_stage(rev_config, revenue_category, fund_name)

(***************************************************************************)
(* Revenue categorization specification                                    *)
(***************************************************************************)
SourceOverrides ==
    << <<<<"p", "r", "o", "p", "e", "r", "t", "y", "_", "t", "a", "x">>, <<<<"P", "r", "o", "p", "e", "r", "t", "y", " ", "T", "a", "x", "*">>, <<"T", "a", "x", " ", "L", "e", "v", "y", "*">>>> >>,
       <<<<"t", "i", "f">>, <<<<"T", "I", "F", "*">>>> >> >>

CategoryFieldMapping ==
    << <<<<"S", "a", "l", "e", "s", " ", "T", "a", "x">>, <<"s", "a", "l", "e", "s", "_", "t", "a", "x">>>>,
       <<<<"F", "e", "e", "s">>, <<"l", "i", "c", "e", "n", "s", "e", "s">>>> >>

FundBasedCategories ==
    << <<<<"w", "a", "t", "e", "r", "_", "s", "e", "w", "e", "r">>, <<<<"W", "a", "t", "e", "r", " ", "F", "u", "n", "d">>>> >>,
       <<<<"p", "e", "n", "s", "i", "o", "n", "_", "a", "l", "l", "o", "c", "a", "t", "i", "o", "n", "s">>, <<<<"P", "o", "l", "i", "c", "e", " ", "A", "n", "n", "u", "i", "t", "y", "*">>, <<"L", "a", "b", "o", "r", "e", "r", "s", "'", "*", "A", "n", "n", "u", "i", "t", "y", "*">>>> >> >>

\* display tables: complete; without the property-tax and licenses entries;
\* with a tif entry that names no revenue_type
DisplayTables ==
    { << <<<<"p", "r", "o", "p", "e", "r", "t", "y", "_", "t", "a", "x">>, [name |-> <<"P", "r", "o", "p", "e", "r", "t", "y", " ", "T", "a", "x">>, revenue_type |-> "tax"]>>,
         <<<<"t", "i", "f">>, [name |-> <<"T", "I", "F">>, revenue_type |-> "other"]>>,
         <<<<"s", "a", "l", "e", "s", "_", "t", "a", "x">>, [name |-> <<"S", "a", "l", "e", "s", " ", "T", "a", "x">>, revenue_type |-> "tax"]>>,
         <<<<"l", "i", "c", "e", "n", "s", "e", "s">>, [name |-> <<"L", "i", "c", "e", "n", "s", "e", "s">>, revenue_type |-> "fee"]>>,
         <<<<"w", "a", "t", "e", "r", "_", "s", "e", "w", "e", "r">>, [name |-> <<"W", "a", "t", "e", "r">>, revenue_type |-> "enterprise"]>>,
         <<<<"p", "e", "n", "s", "i", "o", "n", "_", "a", "l", "l", "o", "c", "a", "t", "i", "o", "n", "s">>,
           [name |-> <<"P", "e", "n", "s", "i", "o", "n", "s">>, revenue_type |-> "internal_transfer"]>> >>,
      << <<<<"t", "i", "f">>, [name |-> <<"T", "I", "F">>]>>,
         <<<<"s", "a", "l", "e", "s", "_", "t", "a", "x">>, [name |-> <<"S", "a", "l", "e", "s", " ", "T", "a", "x">>, revenue_type |-> "tax"]>>,
         <<<<"w", "a", "t", "e", "r", "_", "s", "e", "w", "e", "r">>, [name |-> <<"W", "a", "t", "e", "r">>, revenue_type |-> "enterprise"]>>,
         <<<<"p", "e", "n", "s", "i", "o", "n", "_", "a", "l", "l", "o", "c", "a", "t", "i", "o", "n", "s">>,
           [name |-> <<"P", "e", "n", "s", "i", "o", "n", "s">>, revenue_type |-> "internal_transfer"]>> >>,
      << <<<<"p", "r", "o", "p", "e", "r", "t", "y", "_", "t", "a", "x">>, [name |-> <<"P", "r", "o", "p", "e", "r", "t", "y", " ", "T", "a", "x">>, revenue_type |-> "tax"]>>,
         <<<<"s", "a", "l", "e", "s", "_", "t", "a", "x">>, [name |-> <<"S", "a", "l", "e", "s", " ", "T", "a", "x">>, revenue_type |-> "tax"]>> >> }

RevConfigs ==
    { [source_overrides |-> so, category_field_mapping |-> CategoryFieldMapping,
       fund_based_categories |-> FundBasedCategories, display_categories |-> dc] :
         so \in {SourceOverrides, <<>>}, dc \in DisplayTables }

RevenueCategoryLabels == { <<>>, <<" ", " ">>, <<"S", "a", "l", "e", "s", " ", "T", "a", "x">>, <<" ", "F", "e", "e", "s", " ">>, <<"O", "t", "h", "e", "r">> }

RevenueFundLabels == { <<"W", "a", "t", "e", "r", " ", "F", "u", "n", "d">>, <<"P", "o", "l", "i", "c", "e", " ", "A", "n", "n", "u", "i", "t", "y", " ", "F", "u", "n", "d">>, <<"W", "A", "T", "E", "R", " ", "F", "U", "N", "D">>, <<"C", "o", "r", "p", "o", "r", "a", "t", "e">> }

RevenueSourceLabels ==
    { <<"P", "r", "o", "p", "e", "r", "t", "y", " ", "T", "a", "x", " ", "L", "e", "v", "y">>, <<"T", "I", "F", " ", "P", "r", "o", "p", "e", "r", "t", "y", " ", "T", "a", "x">>, <<"W", "a", "t", "e", "r", " ", "R", "a", "t", "e", "s">>, <<"p", "r", "o", "p", "e", "r", "t", "y", " ", "t", "a", "x">> }

InitRevcat ==
    /\ rc_config \in RevConfigs
    /\ rc_row \in RevenueCategoryLabels \X RevenueFundLabels \X RevenueSourceLabels
    /\ rc_result = <<>>
    /\ rpc = "input"
    /\ EnrichIdle
    /\ DetectIdle
    /\ TransformIdle
    /\ CallIdle
    /\ ValidatorIdle
    /\ PipelineIdle

CategorizeRevenueRow ==
    /\ rpc = "input"
    /\ rc_result' = categorize_revenue_row(rc_config, rc_row[1], rc_row[2], rc_row[3])
    /\ rpc' = "done"
    /\ UNCHANGED <<rc_config, rc_row, enrichVars, detectVars, transformVars, callVars, validatorVars, pipelineVars>>

NextRevcat == CategorizeRevenueRow

SpecRevcat == InitRevcat /\ [][NextRevcat]_vars

\* the override categories, in configuration order, that display_categories
\* lists and of which some pattern matches the source label
MatchingOverrides(rev_config, revenue_source) ==
    LET so == rev_config.source_overrides
        Hit(entry) == /\ entry[1] \in DictKeys(rev_config.display_categories)
                      /\ \E k \in 1..Len(entry[2]) :
                            matches_pattern(revenue_source, entry[2][k])
    IN SelectSeq(so, Hit)

\* C10: a row whose source label matches a source_overrides pattern of a
\* category present in display_categories gets that override category (the
\* first such one in configuration order) and its revenue_type, whatever its
\* category field and fund label are.
C10_SourceOverrideWins ==
    rpc = "done" =>
        LET overrides == MatchingOverrides(rc_config, rc_row[3])
        IN overrides # <<>> =>
              /\ rc_result[1] = overrides[1][1]
              /\ rc_result[2] =
                    revenue_type_of(rc_config.display_categories, overrides[1][1])

\* a property-tax source booked in a pension fund with a mapped category field
C10_Witness ==
    /\ rpc = "done"
    /\ rc_row = <<<<"S", "a", "l", "e", "s", " ", "T", "a", "x">>, <<"P", "o", "l", "i", "c", "e", " ", "A", "n", "n", "u", "i", "t", "y", " ", "F", "u", "n", "d">>, <<"P", "r", "o", "p", "e", "r", "t", "y", " ", "T", "a", "x", " ", "L", "e", "v", "y">>>>
    /\ <<"s", "a", "l", "e", "s", "_", "t", "a", "x">> \in DictKeys(rc_config.display_categories)
    /\ <<"p", "e", "n", "s", "i", "o", "n", "_", "a", "l", "l", "o", "c", "a", "t", "i", "o", "n", "s">> \in DictKeys(rc_config.display_categories)
    /\ rc_result = <<<<"p", "r", "o", "p", "e", "r", "t", "y", "_", "t", "a", "x">>, "tax">>

(***************************************************************************)
(* Text ordering, slugs and title case                                     *)
(***************************************************************************)
\* the characters used, in code-point order
CodePointOrder == <<" ", "'", "*", "-", "0", "1", "2", "3", "4", "5", "6", "7", "8", "9", "A", "B", "C", "D", "E", "F", "G", "H", "I", "J", "K", "L", "M", "N", "O", "P", "Q", "R", "S", "T", "U", "V", "W", "X", "Y", "Z", "_", "a", "b", "c", "d", "e", "f", "g", "h", "i", "j", "k", "l", "m", "n", "o", "p", "q", "r", "s", "t", "u", "v", "w", "x", "y", "z">>

OrdOf ==
    [c \in Range(CodePointOrder) |->
        CHOOSE i \in 1..Len(CodePointOrder) : CodePointOrder[i] = c]

Ord(c) == OrdOf[c]

\* a < b for Python str
RECURSIVE StrLess(_, _)
StrLess(a, b) ==
    IF b = <<>> THEN FALSE
    ELSE IF a = <<>> THEN TRUE
    ELSE IF Head(a) = Head(b) THEN StrLess(Tail(a), Tail(b))
    ELSE Ord(Head(a)) < Ord(Head(b))

\* the elements of a set of strings in ascending order (groupby sorts its keys)
RECURSIVE SortedStrings(_)
SortedStrings(S) ==
    IF S = {} THEN <<>>
    ELSE LET least == CHOOSE x \in S : \A y \in S \ {x} : StrLess(x, y)
         IN <<least>> \o SortedStrings(S \ {least})

IsSlugChar(c) == IsLowerChar(c) \/ IsDigitChar(c)

\* re.sub(r"[^a-z0-9]+", "-", text): each run of other characters becomes one hyphen
RECURSIVE HyphenateRuns(_)
HyphenateRuns(s) ==
    IF s = <<>> THEN <<>>
    ELSE IF IsSlugChar(Head(s)) THEN <<Head(s)>> \o HyphenateRuns(Tail(s))
    ELSE IF Len(s) >= 2 /\ ~IsSlugChar(s[2]) THEN HyphenateRuns(Tail(s))
    ELSE <<"-">> \o HyphenateRuns(Tail(s))

slugify(text) == Strip(HyphenateRuns(lower(text)), "-")

\* str.split(): the maximal runs of non-space characters
RECURSIVE Split(_)
Split(s) ==
    IF s = <<>> THEN <<>>
    ELSE IF Head(s) = " " THEN Split(Tail(s))
    ELSE LET ends == {i \in 1..Len(s) : i = Len(s) \/ s[i + 1] = " "}
             e == CHOOSE i \in ends : \A k \in ends : i <= k
         IN <<SubSeq(s, 1, e)>> \o Split(SubSeq(s, e + 1, Len(s)))

\* " ".join(words)
RECURSIVE Join(_)
Join(words) ==
    IF words = <<>> THEN <<>>
    ELSE IF Len(words) = 1 THEN words[1]
    ELSE words[1] \o <<" ">> \o Join(Tail(words))

IsLetter(c) == IsUpperChar(c) \/ IsLowerChar(c)

\* str.title(): a letter is upper-cased when it does not follow a letter
Title(word) ==
    AsList([i \in 1..Len(word) |->
        IF i = 1 \/ ~IsLetter(word[i - 1]) THEN UpperChar(word[i]) ELSE LowerChar(word[i])])

title_case_with_acronyms(acronyms, text) ==
    LET words == Split(lower(text))
    IN Join(AsList([i \in 1..Len(words) |->
            IF words[i] \in DictKeys(acronyms) THEN DictGet(acronyms, words[i])
            ELSE Title(words[i])]))

(***************************************************************************)
(* city_of_chicago.py: fund categories and simulation constraints          *)
(***************************************************************************)
\* mutant: the last matching category wins
categorize_fund_last_match(transform_config, fund_name) ==
    LET fund_categories == transform_config.fund_categories
        hits == {i \in 1..Len(fund_categories) :
                    matches_fund_list(fund_name, fund_categories[i][2])}
    IN IF hits = {} THEN <<"o", "p", "e", "r", "a", "t", "i", "n", "g">>
       ELSE fund_categories[CHOOSE i \in hits : \A h \in hits : i >= h][1]

\* first category of fund_categories (in dict order) with a matching pattern
categorize_fund(transform_config, fund_name) ==
    LET fund_categories == transform_config.fund_categories
        hits == {i \in 1..Len(fund_categories) :
                    matches_fund_list(fund_name, fund_categories[i][2])}
    IN IF hits = {} THEN <<"o", "p", "e", "r", "a", "t", "i", "n", "g">>
       ELSE fund_categories[CHOOSE i \in hits : \A h \in hits : i <= h][1]

IsGrantFund(fund_name) == Contains(<<"g", "r", "a", "n", "t">>, lower(fund_name))

\* mutant: a grant share equal to the threshold already limits the department
determine_simulation_config_at_least(transform_config, dept_name, fund_breakdown, total_amount) ==
    LET grants == SelectSeq(fund_breakdown, LAMBDA fb : IsGrantFund(fb.fund_name))
        grant_amount == SumSeq([i \in 1..Len(grants) |-> grants[i].amount])
        threshold == transform_config.grant_funded_threshold
        above == IF total_amount > 0
                 THEN grant_amount * threshold.den >= threshold.num * total_amount
                 ELSE 0 >= threshold.num
    IN IF upper(dept_name) \in transform_config.non_adjustable_departments
       THEN [adjustable |-> FALSE, min_pct |-> 100, max_pct |-> 100, step_pct |-> 1,
             constraints |-> <<"legally mandated">>, description |-> "non-adjustable"]
       ELSE IF above
       THEN [adjustable |-> TRUE, min_pct |-> 90, max_pct |-> 110, step_pct |-> 1,
             constraints |-> <<"grant-funded">>, description |-> "limited"]
       ELSE [adjustable |-> TRUE, min_pct |-> 50, max_pct |-> 150, step_pct |-> 1,
             constraints |-> <<>>, description |-> "standard"]

\* multipliers are in percent (min_pct 0.5 is 50); the threshold is a fraction
determine_simulation_config(transform_config, dept_name, fund_breakdown, total_amount) ==
    LET grants == SelectSeq(fund_breakdown, LAMBDA fb : IsGrantFund(fb.fund_name))
        grant_amount == SumSeq([i \in 1..Len(grants) |-> grants[i].amount])
        threshold == transform_config.grant_funded_threshold
        \* grant_amount / total_amount > threshold, 0 when total_amount <= 0
        above == IF total_amount > 0
                 THEN grant_amount * threshold.den > threshold.num * total_amount
                 ELSE 0 > threshold.num
    IN IF upper(dept_name) \in transform_config.non_adjustable_departments
       THEN [adjustable |-> FALSE, min_pct |-> 100, max_pct |-> 100, step_pct |-> 1,
             constraints |-> <<"legally mandated">>, description |-> "non-adjustable"]
       ELSE IF above
       THEN [adjustable |-> TRUE, min_pct |-> 90, max_pct |-> 110, step_pct |-> 1,
             constraints |-> <<"grant-funded">>, description |-> "limited"]
       ELSE [adjustable |-> TRUE, min_pct |-> 50, max_pct |-> 150, step_pct |-> 1,
             constraints |-> <<>>, description |-> "standard"]

(***************************************************************************)
(* city_of_chicago.py: transform.  A DataFrame is its column list and its  *)
(* rows; a raw amount is Some(half dollars) or None when it does not parse.*)
(***************************************************************************)
\* int(x) of an amount counted in half dollars: truncation towards zero
TruncToInt(halves) == IF halves >= 0 THEN halves \div 2 ELSE -((-halves) \div 2)

\* sum of a numeric column (NaN skipped), in half dollars
SumAmounts(rows) ==
    SumSeq([i \in 1..Len(rows) |-> IF rows[i].amount = None THEN 0 ELSE rows[i].amount.value])

\* sum(x.amount for x in xs) over model objects
AmountSumOf(xs) == SumSeq([i \in 1..Len(xs) |-> xs[i].amount])

\* df[df[amount_col].notna()]
DropNaN(rows) == SelectSeq(rows, LAMBDA r : r.amount # None)

RECURSIVE InsertByAmountDesc(_, _)
InsertByAmountDesc(x, sorted) ==
    IF sorted = <<>> THEN <<x>>
    ELSE IF Head(sorted).amount >= x.amount
         THEN <<Head(sorted)>> \o InsertByAmountDesc(x, Tail(sorted))
         ELSE <<x>> \o sorted

\* sorted(xs, key=lambda x: x.amount, reverse=True): stable
RECURSIVE SortByAmountDesc(_)
SortByAmountDesc(xs) ==
    IF xs = <<>> THEN <<>>
    ELSE InsertByAmountDesc(xs[Len(xs)], SortByAmountDesc(SubSeq(xs, 1, Len(xs) - 1)))

\* the distinct elements of a list in order of first appearance (dict insertion order)
RECURSIVE Distinct(_)
Distinct(xs) ==
    IF xs = <<>> THEN <<>>
    ELSE LET rest == Distinct(SubSeq(xs, 1, Len(xs) - 1))
         IN IF xs[Len(xs)] \in Range(rest) THEN rest ELSE Append(rest, xs[Len(xs)])

PairLess(a, b) == StrLess(a[1], b[1]) \/ (a[1] = b[1] /\ StrLess(a[2], b[2]))

RECURSIVE SortedPairs(_)
SortedPairs(S) ==
    IF S = {} THEN <<>>
    ELSE LET least == CHOOSE x \in S : \A y \in S \ {x} : PairLess(x, y)
         IN <<least>> \o SortedPairs(S \ {least})

\* dept_group.groupby(fund_desc_col): one FundBreakdown per fund, keys ascending
FundBreakdownOf(rows, FundOf(_)) ==
    LET funds == SortedStrings({FundOf(rows[i]) : i \in 1..Len(rows)})
    IN AsList([k \in 1..Len(funds) |->
          [fund_id |-> slugify(funds[k]), fund_name |-> funds[k],
           amount |-> TruncToInt(SumAmounts(
                         SelectSeq(rows, LAMBDA r : FundOf(r) = funds[k])))]])

\* dept_group.groupby(acct_desc_col): one Subcategory per label, keys ascending
SubcategoriesOf(rows, LabelOf(_), prefix) ==
    LET labels == SortedStrings({LabelOf(rows[i]) : i \in 1..Len(rows)})
    IN AsList([k \in 1..Len(labels) |->
          [id |-> slugify(prefix \o <<"-">> \o labels[k]), name |-> labels[k],
           amount |-> TruncToInt(SumAmounts(
                         SelectSeq(rows, LAMBDA r : LabelOf(r) = labels[k]))),
           trend |-> None]])

Raised(kind) == [ok |-> FALSE, error |-> kind]

Returned(data) == [ok |-> TRUE, data |-> data]

LabelColumns ==
    <<<<"d", "e", "p", "a", "r", "t", "m", "e", "n", "t", "_", "n", "a", "m", "e">>, <<"d", "e", "p", "a", "r", "t", "m", "e", "n", "t", "_", "c", "o", "d", "e">>, <<"f", "u", "n", "d", "_", "d", "e", "s", "c", "r", "i", "p", "t", "i", "o", "n">>,
      <<"a", "p", "p", "r", "o", "p", "r", "i", "a", "t", "i", "o", "n", "_", "a", "c", "c", "o", "u", "n", "t", "_", "d", "e", "s", "c", "r", "i", "p", "t", "i", "o", "n">>>>

ColumnsOf(frame) == LabelColumns \o <<frame.amount_column>>

\* df["dept_name_normalized"] = df[dept_col].apply(self.title_case_with_acronyms)
Normalized(transform_config, rows) ==
    AsList([i \in 1..Len(rows) |->
       [department_name |-> rows[i].department_name,
        department_code |-> rows[i].department_code,
        fund_description |-> rows[i].fund_description,
        appropriation_account_description |-> rows[i].appropriation_account_description,
        amount |-> rows[i].amount,
        dept_name_normalized |->
            title_case_with_acronyms(transform_config.acronyms, rows[i].department_name)]])

\* mutant: the change is computed for every non-zero prior amount
YearOverYear_unguarded(prior_year_amount, dept_total) ==
    [prior_year_amount |-> Some(prior_year_amount),
     change_pct |->
        IF prior_year_amount # 0
        THEN Some([num |-> (dept_total - prior_year_amount) * 100,
                   den |-> prior_year_amount])
        ELSE None]

\* prior_year_amount and change_pct once the matching prior rows are summed
YearOverYear(prior_year_amount, dept_total) ==
    [prior_year_amount |-> Some(prior_year_amount),
     change_pct |->
        IF prior_year_amount > 0
        THEN Some([num |-> (dept_total - prior_year_amount) * 100,
                   den |-> prior_year_amount])
        ELSE None]

\* the year-over-year fields of one department; prior_rows carry the numeric
\* prior amount column and the normalized names
PriorYear(prior_rows, dept_name, dept_total) ==
    LET prior_match == SelectSeq(prior_rows, LAMBDA r : r.dept_name_normalized = dept_name)
    IN IF prior_match = <<>> THEN [prior_year_amount |-> None, change_pct |-> None]
       ELSE YearOverYear(TruncToInt(SumAmounts(prior_match)), dept_total)

\* pd.to_numeric(prior_df[prior_amount_col], errors="coerce") and the
\* normalized names of the prior table
PriorRowsOf(transform_config, prior_df, prior_amount_col) ==
    Normalized(transform_config,
        IF prior_amount_col = prior_df.amount_column THEN prior_df.rows
        ELSE AsList([i \in 1..Len(prior_df.rows) |->
                        [prior_df.rows[i] EXCEPT !.amount = None]]))

\* the fiscal year transform resolves the prior amount column for
PriorFiscalYear(fiscal_year) == <<"f", "y">> \o DigitsOf(IntOf(RemoveAll(fiscal_year, <<"f", "y">>)) - 1)

\* the Department built from one group's totals
DepartmentFrom(transform_config, key, dept_total, fund_breakdown, subcategories, yoy) ==
    [id |-> slugify(<<"d", "e", "p", "t", "-">> \o key[1]), name |-> key[1], code |-> key[2],
     amount |-> dept_total,
     prior_year_amount |-> yoy.prior_year_amount, change_pct |-> yoy.change_pct,
     fund_breakdown |-> SortByAmountDesc(fund_breakdown),
     subcategories |-> SortByAmountDesc(subcategories),
     simulation |-> determine_simulation_config(transform_config, key[1],
                                                fund_breakdown, dept_total),
     trend |-> None]

\* the body of the department loop for one group; prior_rows is None when no
\* prior table was given
DepartmentOfGroup(transform_config, dept_group, key, dept_total, prior_rows) ==
    DepartmentFrom(transform_config, key, dept_total,
        FundBreakdownOf(dept_group, LAMBDA r : r.fund_description),
        SubcategoriesOf(dept_group, LAMBDA r : r.appropriation_account_description, key[1]),
        IF prior_rows = None THEN [prior_year_amount |-> None, change_pct |-> None]
        ELSE PriorYear(prior_rows.value, key[1], dept_total))

\* one Department per (normalized name, code) group
DepartmentOf(transform_config, rows, key, prior_rows) ==
    LET dept_group == SelectSeq(rows, LAMBDA r :
                         <<r.dept_name_normalized, r.department_code>> = key)
    IN DepartmentOfGroup(transform_config, dept_group, key,
                         TruncToInt(SumAmounts(dept_group)), prior_rows)

\* every fund_breakdown entry of every department, in document order
AllFundBreakdowns(departments) ==
    Flatten([i \in 1..Len(departments) |-> departments[i].fund_breakdown])

\* totals of a list of (key, amount) contributions per key, keys in first-seen order
TotalsByKey(keys, amounts) ==
    LET distinct == Distinct(keys)
    IN AsList([k \in 1..Len(distinct) |->
          <<distinct[k],
            SumSeq([i \in 1..Len(keys) |-> IF keys[i] = distinct[k] THEN amounts[i] ELSE 0])>>])

FundSummaryOf(fund_breakdowns, TypeOf(_)) ==
    LET totals == TotalsByKey([i \in 1..Len(fund_breakdowns) |-> fund_breakdowns[i].fund_name],
                              [i \in 1..Len(fund_breakdowns) |-> fund_breakdowns[i].amount])
    IN SortByAmountDesc(AsList([k \in 1..Len(totals) |->
          [id |-> slugify(totals[k][1]), name |-> totals[k][1],
           amount |-> totals[k][2], fund_type |-> TypeOf(totals[k][1])]]))

(***************************************************************************)
(* city_of_chicago.py: transform_revenue                                   *)
(***************************************************************************)
RevenueLabelColumns == <<<<"r", "e", "v", "e", "n", "u", "e", "_", "s", "o", "u", "r", "c", "e">>, <<"f", "u", "n", "d", "_", "n", "a", "m", "e">>, <<"r", "e", "v", "e", "n", "u", "e", "_", "c", "a", "t", "e", "g", "o", "r", "y">>>>

RevenueColumnsOf(frame) == RevenueLabelColumns \o <<frame.amount_column>>

\* str.replace(old, new) for one-character strings
ReplaceChar(text, old, new) ==
    [i \in 1..Len(text) |-> IF text[i] = old THEN new ELSE text[i]]

\* cat_config.get("name", str(category).replace("_", " ").title())
category_name_of(display_categories, category) ==
    IF category \in DictKeys(display_categories)
       /\ "name" \in DOMAIN DictGet(display_categories, category)
    THEN DictGet(display_categories, category).name
    ELSE Title(AsList(ReplaceChar(category, "_", " ")))

\* one RevenueSource per source_category group
RevenueSourceOf(rev_config, cat_group, category) ==
    [id |-> slugify(<<"r", "e", "v", "e", "n", "u", "e", "-">> \o category),
     name |-> category_name_of(rev_config.display_categories, category),
     amount |-> TruncToInt(SumAmounts(cat_group)),
     revenue_type |-> cat_group[1].revenue_type,
     subcategories |-> SortByAmountDesc(
         SubcategoriesOf(cat_group, LAMBDA r : r.revenue_source, category)),
     fund_breakdown |-> SortByAmountDesc(
         FundBreakdownOf(cat_group, LAMBDA r : r.fund_name)),
     trend |-> None]

\* df["source_category"], df["revenue_type"] of one row
Categorized(rev_config, row) ==
    [revenue_source |-> row.revenue_source, fund_name |-> row.fund_name,
     amount |-> row.amount,
     source_category |-> categorize_revenue_row(rev_config, row.revenue_category,
                                                row.fund_name, row.revenue_source)[1],
     revenue_type |-> categorize_revenue_row(rev_config, row.revenue_category,
                                             row.fund_name, row.revenue_source)[2]]

\* the Revenue model of the sorted sources
RevenueOf(sources) ==
    [by_source |-> sources,
     by_fund |-> FundSummaryOf(AllFundBreakdowns(sources), LAMBDA name : "operating"),
     total_revenue |-> SumSeq([k \in 1..Len(sources) |-> sources[k].amount]),
     local_revenue_only |-> TRUE, grant_revenue_estimated |-> None]

\* RevenueSource.amount is declared ge=0: a negative category total is refused
SourcesToRevenue(unsorted) ==
    IF \E k \in 1..Len(unsorted) : unsorted[k].amount < 0 THEN Raised("ValidationError")
    ELSE Returned(RevenueOf(SortByAmountDesc(unsorted)))

\* the groupby("source_category") loop over the categorized rows
AggregateRevenue(rev_config, categorized, categories) ==
    SourcesToRevenue(AsList([k \in 1..Len(categories) |->
        RevenueSourceOf(rev_config,
            SelectSeq(categorized, LAMBDA r : r.source_category = categories[k]),
            categories[k])]))

\* the rows with a non-zero numeric amount, categorized
CategorizedRows(rev_config, kept) ==
    AsList([i \in 1..Len(kept) |-> Categorized(rev_config, kept[i])])

CategoriesOf(categorized) ==
    SortedStrings({categorized[i].source_category : i \in 1..Len(categorized)})

GroupRevenue(rev_config, categorized) ==
    AggregateRevenue(rev_config, categorized, CategoriesOf(categorized))

transform_revenue(transform_config, frame, fiscal_year) ==
    IF frame.rows = <<>>
    THEN Returned([by_source |-> <<>>, by_fund |-> <<>>, total_revenue |-> 0,
                   local_revenue_only |-> TRUE, grant_revenue_estimated |-> None])
    ELSE IF detect_amount_column(RevenueColumnsOf(frame), fiscal_year)
               = ColumnError(RevenueColumnsOf(frame))
    THEN Raised("ValueError")
    ELSE GroupRevenue(transform_config.revenue_categorization,
            CategorizedRows(transform_config.revenue_categorization,
               SelectSeq(DropNaN(frame.rows), LAMBDA r : r.amount.value # 0)))

(***************************************************************************)
(* city_of_chicago.py: transform                                           *)
(***************************************************************************)
\* operating_appropriations: total minus the non-operating funds when the
\* configuration lists any, else the "operating" category, else None
OperatingTotal(transform_config, fund_breakdowns, category_breakdown, total_appropriations) ==
    LET non_operating_funds == transform_config.non_operating_funds
        listed == SelectSeq(fund_breakdowns,
                     LAMBDA fb : matches_fund_list(fb.fund_name, non_operating_funds))
    IN IF non_operating_funds # <<>>
       THEN Some(total_appropriations
                 - SumSeq([i \in 1..Len(listed) |-> listed[i].amount]))
       ELSE IF category_breakdown # <<>>
       THEN IF <<"o", "p", "e", "r", "a", "t", "i", "n", "g">> \in DictKeys(category_breakdown)
            THEN Some(DictGet(category_breakdown, <<"o", "p", "e", "r", "a", "t", "i", "n", "g">>)) ELSE None
       ELSE None

\* mutant: gross_appropriations adds up every department, negative ones too
MetadataOf_net_gross(transform_config, fiscal_year, amounts, fund_breakdowns, category_breakdown, total_revenue) ==
    [entity_id |-> "city-of-chicago", fiscal_year |-> fiscal_year,
     gross_appropriations |-> SumSeq(amounts),
     accounting_adjustments |->
         SumSeq([i \in 1..Len(amounts) |-> IF amounts[i] < 0 THEN amounts[i] ELSE 0]),
     total_appropriations |-> SumSeq(amounts),
     operating_appropriations |->
         OperatingTotal(transform_config, fund_breakdowns, category_breakdown,
                        SumSeq(amounts)),
     fund_category_breakdown |-> category_breakdown,
     total_revenue |-> total_revenue,
     revenue_surplus_deficit |->
         IF total_revenue = None THEN None
         ELSE Some(total_revenue.value - SumSeq(amounts))]

\* mutant: the surplus is taken against the gross appropriations
MetadataOf_gross_surplus(transform_config, fiscal_year, amounts, fund_breakdowns, category_breakdown, total_revenue) ==
    [entity_id |-> "city-of-chicago", fiscal_year |-> fiscal_year,
     gross_appropriations |->
         SumSeq([i \in 1..Len(amounts) |-> IF amounts[i] > 0 THEN amounts[i] ELSE 0]),
     accounting_adjustments |->
         SumSeq([i \in 1..Len(amounts) |-> IF amounts[i] < 0 THEN amounts[i] ELSE 0]),
     total_appropriations |-> SumSeq(amounts),
     operating_appropriations |->
         OperatingTotal(transform_config, fund_breakdowns, category_breakdown,
                        SumSeq(amounts)),
     fund_category_breakdown |-> category_breakdown,
     total_revenue |-> total_revenue,
     revenue_surplus_deficit |->
         IF total_revenue = None THEN None
         ELSE Some(total_revenue.value
                   - SumSeq([i \in 1..Len(amounts) |-> IF amounts[i] > 0 THEN amounts[i] ELSE 0]))]

\* the Metadata of the document (revenue fields filled in by the caller)
MetadataOf(transform_config, fiscal_year, amounts, fund_breakdowns, category_breakdown, total_revenue) ==
    [entity_id |-> "city-of-chicago", fiscal_year |-> fiscal_year,
     gross_appropriations |->
         SumSeq([i \in 1..Len(amounts) |-> IF amounts[i] > 0 THEN amounts[i] ELSE 0]),
     accounting_adjustments |->
         SumSeq([i \in 1..Len(amounts) |-> IF amounts[i] < 0 THEN amounts[i] ELSE 0]),
     total_appropriations |-> SumSeq(amounts),
     operating_appropriations |->
         OperatingTotal(transform_config, fund_breakdowns, category_breakdown,
                        SumSeq(amounts)),
     fund_category_breakdown |-> category_breakdown,
     total_revenue |-> total_revenue,
     revenue_surplus_deficit |->
         IF total_revenue = None THEN None
         ELSE Some(total_revenue.value - SumSeq(amounts))]

CategoryBreakdownOf(transform_config, fund_breakdowns) ==
    TotalsByKey([i \in 1..Len(fund_breakdowns) |->
                    categorize_fund(transform_config, fund_breakdowns[i].fund_name)],
                [i \in 1..Len(fund_breakdowns) |-> fund_breakdowns[i].amount])

\* grant_total = sum(f.amount for f in by_fund if "grant" in f.name.lower())
GrantTotal(by_fund) ==
    AmountSumOf(SelectSeq(by_fund, LAMBDA f : IsGrantFund(f.name)))

\* the returned BudgetData; revenue is None or the result of transform_revenue
Assemble(transform_config, fiscal_year, departments, fund_breakdowns, by_fund, revenue) ==
    IF revenue = None
    THEN Returned(
           [metadata |-> MetadataOf(transform_config, fiscal_year,
                            [i \in 1..Len(departments) |-> departments[i].amount],
                            fund_breakdowns,
                            CategoryBreakdownOf(transform_config, fund_breakdowns), None),
            appropriations |-> [by_department |-> departments, by_fund |-> by_fund],
            revenue |-> None, schema_version |-> "1.0.0"])
    ELSE IF ~revenue.value.ok THEN revenue.value
    ELSE Returned(
           [metadata |-> MetadataOf(transform_config, fiscal_year,
                            [i \in 1..Len(departments) |-> departments[i].amount],
                            fund_breakdowns,
                            CategoryBreakdownOf(transform_config, fund_breakdowns),
                            Some(revenue.value.data.total_revenue)),
            appropriations |-> [by_department |-> departments, by_fund |-> by_fund],
            revenue |-> Some([revenue.value.data EXCEPT !.grant_revenue_estimated =
                                IF GrantTotal(by_fund) > 0 THEN Some(GrantTotal(by_fund))
                                ELSE None]),
            schema_version |-> "1.0.0"])

\* everything after the department loop
Summarize(transform_config, fiscal_year, departments, fund_breakdowns, revenue_df) ==
    Assemble(transform_config, fiscal_year, departments, fund_breakdowns,
        FundSummaryOf(fund_breakdowns,
            LAMBDA name : IF IsGrantFund(name) THEN "grant" ELSE "operating"),
        IF revenue_df # None /\ revenue_df.value.rows # <<>>
        THEN Some(transform_revenue(transform_config, revenue_df.value, fiscal_year))
        ELSE None)

SortedDepartments(transform_config, fiscal_year, departments, revenue_df) ==
    Summarize(transform_config, fiscal_year, departments,
              AllFundBreakdowns(departments), revenue_df)

\* the department loop over the (normalized name, code) groups, keys ascending
AggregateDepartments(transform_config, rows, keys, fiscal_year, prior_df, revenue_df) ==
    IF /\ keys # <<>> /\ prior_df # None
       /\ detect_amount_column(ColumnsOf(prior_df.value), PriorFiscalYear(fiscal_year))
             = ColumnError(ColumnsOf(prior_df.value))
    THEN Raised("ValueError")
    ELSE SortedDepartments(transform_config, fiscal_year,
            SortByAmountDesc(AsList([k \in 1..Len(keys) |->
                DepartmentOf(transform_config, rows, keys[k],
                    IF prior_df = None THEN None
                    ELSE Some(PriorRowsOf(transform_config, prior_df.value,
                            detect_amount_column(ColumnsOf(prior_df.value),
                                                 PriorFiscalYear(fiscal_year)).value)))])),
            revenue_df)

GroupDepartments(transform_config, rows, fiscal_year, prior_df, revenue_df) ==
    AggregateDepartments(transform_config, rows,
        SortedPairs({<<rows[i].dept_name_normalized, rows[i].department_code>> :
                        i \in 1..Len(rows)}),
        fiscal_year, prior_df, revenue_df)

transform(transform_config, frame, fiscal_year, prior_df, revenue_df) ==
    IF detect_amount_column(ColumnsOf(frame), fiscal_year) = ColumnError(ColumnsOf(frame))
    THEN Raised("ValueError")
    ELSE GroupDepartments(transform_config,
            Normalized(transform_config, DropNaN(frame.rows)),
            fiscal_year, prior_df, revenue_df)

(***************************************************************************)
(* validators/budget.py: BudgetValidator                                   *)
(***************************************************************************)
tolerance == 1

Abs(n) == IF n < 0 THEN -n ELSE n

\* len(ids) != len(set(ids))
HasDuplicates(xs) == Cardinality(Range(xs)) # Len(xs)

IdsOf(xs) == [i \in 1..Len(xs) |-> xs[i].id]

\* mutant: a difference equal to the tolerance is reported as well
validate_department_sums_exclusive(data) ==
    IF Abs(AmountSumOf(data.appropriations.by_department)
           - data.metadata.total_appropriations) >= tolerance
    THEN <<[check |-> "department_sum"]>> ELSE <<>>

validate_department_sums(data) ==
    IF Abs(AmountSumOf(data.appropriations.by_department)
           - data.metadata.total_appropriations) > tolerance
    THEN <<[check |-> "department_sum"]>> ELSE <<>>

validate_subcategory_sums(data) ==
    LET depts == data.appropriations.by_department
        bad == SelectSeq(depts, LAMBDA d :
                  /\ d.subcategories # <<>>
                  /\ Abs(AmountSumOf(d.subcategories) - d.amount) > tolerance)
    IN AsList([i \in 1..Len(bad) |-> [check |-> "subcategory_sum", name |-> bad[i].name]])

validate_fund_breakdown_sums(data) ==
    LET depts == data.appropriations.by_department
        bad == SelectSeq(depts, LAMBDA d :
                  /\ d.fund_breakdown # <<>>
                  /\ Abs(AmountSumOf(d.fund_breakdown) - d.amount) > tolerance)
    IN AsList([i \in 1..Len(bad) |-> [check |-> "fund_breakdown_sum", name |-> bad[i].name]])

validate_fund_summary_sum(data) ==
    IF Abs(AmountSumOf(data.appropriations.by_fund)
           - data.metadata.total_appropriations) > tolerance
    THEN <<[check |-> "fund_summary_sum"]>> ELSE <<>>

validate_unique_ids(data) ==
    LET depts == data.appropriations.by_department
        bad == SelectSeq(depts, LAMBDA d : HasDuplicates(IdsOf(d.subcategories)))
    IN (IF HasDuplicates(IdsOf(depts)) THEN <<[check |-> "duplicate_department_ids"]>> ELSE <<>>)
       \o AsList([i \in 1..Len(bad) |->
                    [check |-> "duplicate_subcategory_ids", name |-> bad[i].name]])

validate_revenue_errors(data) ==
    IF data.revenue = None THEN <<>>
    ELSE LET revenue == data.revenue.value
             bad == SelectSeq(revenue.by_source, LAMBDA s :
                       /\ s.subcategories # <<>>
                       /\ Abs(AmountSumOf(s.subcategories) - s.amount) > tolerance)
         IN (IF Abs(AmountSumOf(revenue.by_source) - revenue.total_revenue) > tolerance
             THEN <<[check |-> "revenue_sum"]>> ELSE <<>>)
            \o AsList([i \in 1..Len(bad) |->
                         [check |-> "revenue_subcategory_sum", name |-> bad[i].name]])

validate_revenue_warnings(data) ==
    IF data.revenue = None THEN <<>>
    ELSE LET revenue == data.revenue.value
             metadata == data.metadata
             approp == metadata.total_appropriations
         IN (IF /\ metadata.total_revenue # None /\ approp > 0
                \* abs((rev - approp) / approp) * 100 > 10
                /\ Abs(metadata.total_revenue.value - approp) * 100 > 10 * approp
             THEN <<[check |-> "revenue_gap"]>> ELSE <<>>)
            \o (IF /\ revenue.grant_revenue_estimated # None
                   /\ revenue.grant_revenue_estimated.value > 0
                THEN <<[check |-> "grant_revenue_excluded"]>> ELSE <<>>)

\* {d.name: d for d in departments}[name]: the last department of that name
LastByName(depts, name) ==
    depts[CHOOSE i \in 1..Len(depts) :
             /\ depts[i].name = name
             /\ \A j \in (i + 1)..Len(depts) : depts[j].name # name]

validate_cross_year_consistency(current, prior) ==
    LET cur == current.appropriations.by_department
        old == prior.appropriations.by_department
        cur_names == Distinct([i \in 1..Len(cur) |-> cur[i].name])
        old_names == Distinct([i \in 1..Len(old) |-> old[i].name])
        Large(name) ==
            /\ name \in Range(old_names)
            /\ LastByName(old, name).amount > 0
            \* abs((current - prior) / prior * 100) > 50
            /\ Abs(LastByName(cur, name).amount - LastByName(old, name).amount) * 100
                  > 50 * LastByName(old, name).amount
        large == SelectSeq(cur_names, Large)
    IN AsList([i \in 1..Len(large) |-> [check |-> "large_change", name |-> large[i]]])
       \o (IF Range(cur_names) \ Range(old_names) # {}
           THEN <<[check |-> "new_departments"]>> ELSE <<>>)
       \o (IF Range(old_names) \ Range(cur_names) # {}
           THEN <<[check |-> "removed_departments"]>> ELSE <<>>)

\* mutant: a warning fails the run as well
validate_return_strict(errors_found, warnings_found) ==
    [valid |-> errors_found = <<>> /\ warnings_found = <<>>,
     errors |-> errors_found, warnings |-> warnings_found]

\* return len(self.errors) == 0, with the lists left on the validator
validate_return(errors_found, warnings_found) ==
    [valid |-> errors_found = <<>>, errors |-> errors_found, warnings |-> warnings_found]

\* mutant: the cross-year findings are recorded as errors
validate_cross_year_errors(data, prior_data) ==
    validate_return(
        validate_department_sums(data) \o validate_subcategory_sums(data)
            \o validate_fund_summary_sum(data) \o validate_unique_ids(data)
            \o validate_revenue_errors(data)
            \o (IF prior_data = None THEN <<>>
                ELSE validate_cross_year_consistency(data, prior_data.value)),
        validate_fund_breakdown_sums(data) \o validate_revenue_warnings(data))

\* BudgetValidator.validate: the returned boolean and the errors and warnings it
\* leaves on the validator
validate(data, prior_data) ==
    validate_return(
        validate_department_sums(data) \o validate_subcategory_sums(data)
            \o validate_fund_summary_sum(data) \o validate_unique_ids(data)
            \o validate_revenue_errors(data),
        validate_fund_breakdown_sums(data) \o validate_revenue_warnings(data)
            \o (IF prior_data = None THEN <<>>
                ELSE validate_cross_year_consistency(data, prior_data.value)))

\* mutant: the lists of the previous call are kept
validate_keep(validator) == validator

\* self.errors = []; self.warnings = [] at the start of validate
validate_reset(validator) == [errors |-> <<>>, warnings |-> <<>>]

\* validate called on a validator instance that holds the lists of its
\* previous call: the lists are reset, then the checks append to them
validate_on(validator, data, prior_data) ==
    LET start == validate_reset(validator)
        found == validate(data, prior_data)
    IN validate_return(start.errors \o found.errors, start.warnings \o found.warnings)

(***************************************************************************)
(* Transformation specification: a raw table is built row by row, then     *)
(* transformed, then the returned document is validated.                   *)
(***************************************************************************)
Row(name, code, fund, account, amount) ==
    [department_name |-> name, department_code |-> code, fund_description |-> fund,
     appropriation_account_description |-> account, amount |-> amount]

\* raw appropriation rows; amounts are in half dollars
RowSet ==
    { Row(<<"P", "O", "L", "I", "C", "E">>, <<"0", "5", "7">>, <<"C", "o", "r", "p", "o", "r", "a", "t", "e", " ", "F", "u", "n", "d">>, <<"S", "a", "l", "a", "r", "i", "e", "s">>, Some(8)),
      Row(<<"P", "O", "L", "I", "C", "E">>, <<"0", "5", "7">>, <<"C", "o", "r", "p", "o", "r", "a", "t", "e", " ", "F", "u", "n", "d">>, <<"O", "v", "e", "r", "t", "i", "m", "e">>, Some(1)),
      Row(<<"P", "O", "L", "I", "C", "E">>, <<"0", "5", "7">>, <<"G", "r", "a", "n", "t", " ", "F", "u", "n", "d">>, <<"S", "u", "p", "p", "l", "i", "e", "s">>, Some(1)),
      Row(<<"P", "o", "l", "i", "c", "e">>, <<"0", "5", "7">>, <<"C", "o", "r", "p", "o", "r", "a", "t", "e", " ", "F", "u", "n", "d">>, <<"S", "a", "l", "a", "r", "i", "e", "s">>, Some(-2)),
      Row(<<"P", "O", "L", "I", "C", "E">>, <<"0", "5", "8">>, <<"C", "o", "r", "p", "o", "r", "a", "t", "e", " ", "F", "u", "n", "d">>, <<"S", "a", "l", "a", "r", "i", "e", "s">>, Some(4)),
      Row(<<"O", "E", "M", "C">>, <<"0", "2", "1">>, <<"F", "e", "d", "e", "r", "a", "l", " ", "G", "r", "a", "n", "t", " ", "F", "u", "n", "d">>, <<"E", "q", "u", "i", "p", "m", "e", "n", "t">>, Some(12)),
      Row(<<"F", "I", "N", "A", "N", "C", "E", " ", "G", "E", "N", "E", "R", "A", "L">>, <<"0", "9", "9">>, <<"C", "o", "r", "p", "o", "r", "a", "t", "e", " ", "F", "u", "n", "d">>, <<"P", "e", "n", "s", "i", "o", "n", "s">>, Some(6)),
      Row(<<"A", "D", "J", "U", "S", "T", "M", "E", "N", "T", "S">>, <<"9", "9", "9">>, <<"C", "o", "r", "p", "o", "r", "a", "t", "e", " ", "F", "u", "n", "d">>, <<"S", "a", "l", "a", "r", "i", "e", "s">>, Some(2000000)),
      Row(<<"A", "D", "J", "U", "S", "T", "M", "E", "N", "T", "S">>, <<"9", "9", "9">>, <<"C", "o", "r", "p", "o", "r", "a", "t", "e", " ", "F", "u", "n", "d">>, <<"R", "e", "d", "u", "c", "t", "i", "o", "n", "s">>, Some(-100000)),
      Row(<<"F", "I", "R", "E">>, <<"0", "7", "0">>, <<"W", "a", "t", "e", "r", " ", "F", "u", "n", "d">>, <<"S", "a", "l", "a", "r", "i", "e", "s">>, None),
      Row(<<"F", "I", "R", "E">>, <<"0", "7", "0">>, <<"W", "a", "t", "e", "r", " ", "F", "u", "n", "d">>, <<"S", "a", "l", "a", "r", "i", "e", "s">>, Some(0)) }

MaxRows == 2

PriorRows ==
    << Row(<<"P", "O", "L", "I", "C", "E">>, <<"0", "5", "7">>, <<"C", "o", "r", "p", "o", "r", "a", "t", "e", " ", "F", "u", "n", "d">>, <<"S", "a", "l", "a", "r", "i", "e", "s">>, Some(4)),
       Row(<<"P", "O", "L", "I", "C", "E">>, <<"0", "5", "7">>, <<"C", "o", "r", "p", "o", "r", "a", "t", "e", " ", "F", "u", "n", "d">>, <<"O", "v", "e", "r", "t", "i", "m", "e">>, None),
       Row(<<"O", "E", "M", "C">>, <<"0", "2", "1">>, <<"F", "e", "d", "e", "r", "a", "l", " ", "G", "r", "a", "n", "t", " ", "F", "u", "n", "d">>, <<"E", "q", "u", "i", "p", "m", "e", "n", "t">>, Some(0)),
       Row(<<"F", "I", "N", "A", "N", "C", "E", " ", "G", "E", "N", "E", "R", "A", "L">>, <<"0", "9", "9">>, <<"C", "o", "r", "p", "o", "r", "a", "t", "e", " ", "F", "u", "n", "d">>, <<"P", "e", "n", "s", "i", "o", "n", "s">>, Some(-6)) >>

\* no prior table, or the raw table of the prior year the caller named
\* (fiscal_year is the year whose raw file the caller loaded)
PriorFrames ==
    { None,
      Some([fiscal_year |-> <<"f", "y", "2", "0", "2", "4">>, amount_column |-> <<"2", "0", "2", "4", "_", "o", "r", "d", "i", "n", "a", "n", "c", "e">>, rows |-> PriorRows]),
      Some([fiscal_year |-> <<"f", "y", "2", "0", "2", "3">>, amount_column |-> <<"2", "0", "2", "3", "_", "o", "r", "d", "i", "n", "a", "n", "c", "e">>, rows |-> PriorRows]) }

\* years.sort(); prior_year = years[i - 1]: the prior year precedes the year
PrecedesYear(prior_df, fiscal_year) ==
    IF prior_df = None THEN TRUE
    ELSE IntOf(RemoveAll(prior_df.value.fiscal_year, <<"f", "y">>)) < IntOf(RemoveAll(fiscal_year, <<"f", "y">>))

RevenueRow(source, fund, category, amount) ==
    [revenue_source |-> source, fund_name |-> fund, revenue_category |-> category,
     amount |-> amount]

\* no revenue table; an empty one; a categorized one; one whose refunds exceed receipts
RevenueFrames ==
    { None,
      Some([amount_column |-> <<"e", "s", "t", "i", "m", "a", "t", "e", "d", "_", "r", "e", "v", "e", "n", "u", "e">>, rows |-> <<>>]),
      Some([amount_column |-> <<"e", "s", "t", "i", "m", "a", "t", "e", "d", "_", "r", "e", "v", "e", "n", "u", "e">>, rows |->
            << RevenueRow(<<"P", "r", "o", "p", "e", "r", "t", "y", " ", "T", "a", "x", " ", "L", "e", "v", "y">>, <<"C", "o", "r", "p", "o", "r", "a", "t", "e", " ", "F", "u", "n", "d">>, <<>>, Some(20)),
               RevenueRow(<<"W", "a", "t", "e", "r", " ", "R", "a", "t", "e", "s">>, <<"W", "a", "t", "e", "r", " ", "F", "u", "n", "d">>, <<>>, Some(3)),
               RevenueRow(<<"W", "a", "t", "e", "r", " ", "F", "e", "e", "s">>, <<"W", "a", "t", "e", "r", " ", "F", "u", "n", "d">>, <<>>, Some(3)),
               RevenueRow(<<"V", "e", "h", "i", "c", "l", "e", " ", "S", "t", "i", "c", "k", "e", "r", "s">>, <<"C", "o", "r", "p", "o", "r", "a", "t", "e", " ", "F", "u", "n", "d">>, <<"F", "e", "e", "s">>, Some(0)) >>]),
      Some([amount_column |-> <<"e", "s", "t", "i", "m", "a", "t", "e", "d", "_", "r", "e", "v", "e", "n", "u", "e">>, rows |->
            << RevenueRow(<<"R", "e", "f", "u", "n", "d", "s">>, <<"C", "o", "r", "p", "o", "r", "a", "t", "e", " ", "F", "u", "n", "d">>, <<>>, Some(-2)) >>]) }

\* the test fixture's transform section, with and without non_operating_funds
TransformConfigOf(non_operating_funds) ==
    [acronyms |-> << <<<<"o", "e", "m", "c">>, <<"O", "E", "M", "C">>>> >>,
     non_adjustable_departments |-> {<<"F", "I", "N", "A", "N", "C", "E", " ", "G", "E", "N", "E", "R", "A", "L">>},
     grant_funded_threshold |-> [num |-> 9, den |-> 10],
     fund_categories |-> << <<<<"e", "n", "t", "e", "r", "p", "r", "i", "s", "e">>, <<<<"W", "a", "t", "e", "r", " ", "F", "u", "n", "d">>>> >>,
                            <<<<"g", "r", "a", "n", "t">>, <<<<"*", "G", "r", "a", "n", "t", "*">>>> >> >>,
     non_operating_funds |-> non_operating_funds,
     revenue_categorization |->
        [source_overrides |-> SourceOverrides,
         category_field_mapping |-> CategoryFieldMapping,
         fund_based_categories |-> FundBasedCategories,
         display_categories |-> CHOOSE dc \in DisplayTables : Len(dc) = 6]]

TransformConfigs ==
    { TransformConfigOf(<<>>), TransformConfigOf(<<<<"F", "e", "d", "e", "r", "a", "l", " ", "G", "r", "a", "n", "t", " ", "F", "u", "n", "d">>, <<"W", "a", "t", "e", "r", "*">>>>) }

FiscalYears == {<<"f", "y", "2", "0", "2", "5">>, <<"f", "y", "2", "0", "2", "4">>}

\* a prior year's document handed to the validator
PriorDocument ==
    [metadata |-> [total_appropriations |-> 1],
     appropriations |->
        [by_department |-> <<[name |-> <<"P", "o", "l", "i", "c", "e">>, amount |-> 1],
                             [name |-> <<"S", "t", "r", "e", "e", "t", "s">>, amount |-> 3]>>]]

InitTransform ==
    /\ t_config \in TransformConfigs
    /\ df = [amount_column |-> <<"2", "0", "2", "5", "_", "o", "r", "d", "i", "n", "a", "n", "c", "e">>, rows |-> <<>>]
    /\ t_year \in FiscalYears
    /\ t_prior \in PriorFrames
    /\ PrecedesYear(t_prior, t_year)
    /\ t_revenue \in RevenueFrames
    /\ t_result = <<>>
    /\ errors = <<>>
    /\ warnings = <<>>
    /\ tpc = "input"
    /\ EnrichIdle
    /\ DetectIdle
    /\ RevcatIdle
    /\ CallIdle
    /\ ValidatorIdle
    /\ PipelineIdle

\* one more raw row arrives in the appropriations table
AddRow ==
    /\ tpc = "input"
    /\ Len(df.rows) < MaxRows
    /\ \E row \in RowSet : df' = [df EXCEPT !.rows = Append(@, row)]
    /\ UNCHANGED <<t_config, t_year, t_prior, t_revenue, t_result,
                   errors, warnings, tpc, enrichVars, detectVars, revcatVars, callVars, validatorVars, pipelineVars>>

\* transformer.transform(df, t_year, t_prior, t_revenue)
Transform ==
    /\ tpc = "input"
    /\ t_result' = transform(t_config, df, t_year, t_prior, t_revenue)
    /\ tpc' = IF t_result'.ok THEN "transformed" ELSE "raised"
    /\ UNCHANGED <<t_config, df, t_year, t_prior, t_revenue,
                   errors, warnings, enrichVars, detectVars, revcatVars, callVars, validatorVars, pipelineVars>>

\* validator.validate(data, prior_data) on the returned document
Validate ==
    /\ tpc = "transformed"
    /\ \E prior_data \in {None, Some(PriorDocument)} :
          LET report == validate(t_result.data, prior_data)
          IN /\ errors' = report.errors
             /\ warnings' = report.warnings
    /\ tpc' = "validated"
    /\ UNCHANGED <<t_config, df, t_year, t_prior, t_revenue, t_result,
                   enrichVars, detectVars, revcatVars, callVars, validatorVars, pipelineVars>>

NextTransform == AddRow \/ Transform \/ Validate

SpecTransform == InitTransform /\ [][NextTransform]_vars

HasReturned(pc) == pc \in {"transformed", "validated"}

\* C6: every document transform returns passes validation: validate reports
\* zero errors on it, whatever names, codes, labels and amounts the rows carry.
C6_ReturnedDocumentValidates ==
    tpc = "validated" => errors = <<>>

\* C7: in every returned document each department's amount equals the sum of
\* its subcategories' amounts exactly, also for negative, zero and fractional
\* input amounts.
C7_SubcategoriesSumToDepartment ==
    HasReturned(tpc) =>
        \A i \in 1..Len(t_result.data.appropriations.by_department) :
            LET dept == t_result.data.appropriations.by_department[i]
            IN AmountSumOf(dept.subcategories) = dept.amount

\* the parsed amounts of the raw table, in half dollars
ParsedAmounts == [i \in 1..Len(DropNaN(df.rows)) |-> DropNaN(df.rows)[i].amount.value]

\* C8: gross_appropriations is the sum of the positive input amounts and
\* accounting_adjustments the sum of the negative input amounts (whole-dollar
\* inputs); rows of +1,000,000 and -50,000 in department 999 give 1,000,000
\* and -50,000 with a department amount and total of 950,000.
C8_NegativeAmountsPreserved ==
    (HasReturned(tpc) /\ \A i \in 1..Len(ParsedAmounts) : ParsedAmounts[i] % 2 = 0) =>
        LET metadata == t_result.data.metadata
            positive == SumSeq([i \in 1..Len(ParsedAmounts) |->
                           IF ParsedAmounts[i] > 0 THEN ParsedAmounts[i] \div 2 ELSE 0])
            negative == SumSeq([i \in 1..Len(ParsedAmounts) |->
                           IF ParsedAmounts[i] < 0 THEN -((-ParsedAmounts[i]) \div 2) ELSE 0])
        IN /\ metadata.gross_appropriations = positive
           /\ metadata.accounting_adjustments = negative
           /\ metadata.total_appropriations = positive + negative

(***************************************************************************)
(* Helper call specification: one call of determine_simulation_config,     *)
(* _matches_fund_list or categorize_fund on a configured transformer.      *)
(***************************************************************************)
FundBreakdown(fund_name, amount) ==
    [fund_id |-> slugify(fund_name), fund_name |-> fund_name, amount |-> amount]

\* fund mixes of one department: corporate only, 95% grant, exactly 90% grant,
\* grant only (upper-case label), a negative grant fund, no funds
FundBreakdownLists ==
    { <<FundBreakdown(<<"C", "o", "r", "p", "o", "r", "a", "t", "e", " ", "F", "u", "n", "d">>, 1000000)>>,
      <<FundBreakdown(<<"F", "e", "d", "e", "r", "a", "l", " ", "G", "r", "a", "n", "t">>, 950000), FundBreakdown(<<"C", "o", "r", "p", "o", "r", "a", "t", "e", " ", "F", "u", "n", "d">>, 50000)>>,
      <<FundBreakdown(<<"F", "e", "d", "e", "r", "a", "l", " ", "G", "r", "a", "n", "t">>, 900000), FundBreakdown(<<"C", "o", "r", "p", "o", "r", "a", "t", "e", " ", "F", "u", "n", "d">>, 100000)>>,
      <<FundBreakdown(<<"S", "T", "A", "T", "E", " ", "G", "R", "A", "N", "T">>, 10)>>,
      <<FundBreakdown(<<"G", "r", "a", "n", "t", " ", "F", "u", "n", "d">>, -4)>>,
      <<>> }

TotalAmounts == {1000000, 10, 0, -4}

DepartmentNames == {<<"F", "i", "n", "a", "n", "c", "e", " ", "G", "e", "n", "e", "r", "a", "l">>, <<"F", "I", "N", "A", "N", "C", "E", " ", "G", "E", "N", "E", "R", "A", "L">>, <<"f", "i", "n", "a", "n", "c", "e", " ", "g", "e", "n", "e", "r", "a", "l">>, <<"G", "r", "a", "n", "t", " ", "D", "e", "p", "t">>, <<"P", "o", "l", "i", "c", "e">>}

SimulationCalls ==
    { [op |-> "determine_simulation_config", dept_name |-> n,
       fund_breakdown |-> fb, total_amount |-> t] :
         n \in DepartmentNames, fb \in FundBreakdownLists, t \in TotalAmounts }

FundLabels ==
    { <<"C", "o", "r", "p", "o", "r", "a", "t", "e", " ", "F", "u", "n", "d">>, <<"c", "o", "r", "p", "o", "r", "a", "t", "e", " ", "f", "u", "n", "d">>, <<"W", "a", "t", "e", "r", " ", "F", "u", "n", "d">>, <<"F", "e", "d", "e", "r", "a", "l", " ", "G", "r", "a", "n", "t", " ", "F", "u", "n", "d">>,
      <<"S", "t", "a", "t", "e", " ", "G", "r", "a", "n", "t", " ", "P", "r", "o", "g", "r", "a", "m">>, <<"B", "o", "n", "d", " ", "R", "e", "d", "e", "m", "p", "t", "i", "o", "n", " ", "S", "e", "r", "i", "e", "s", " ", "A">>, <<"L", "a", "b", "o", "r", "e", "r", "s", "'", "A", "n", "n", "u", "i", "t", "y", " ", "F", "u", "n", "d">>,
      <<"L", "a", "b", "o", "r", "e", "r", "s", "'", "*", "A", "n", "n", "u", "i", "t", "y", " ", "F", "u", "n", "d">>, <<"U", "n", "k", "n", "o", "w", "n", " ", "F", "u", "n", "d">> }

FundLists ==
    { <<>>, <<<<"C", "o", "r", "p", "o", "r", "a", "t", "e", " ", "F", "u", "n", "d">>, <<"V", "e", "h", "i", "c", "l", "e", " ", "T", "a", "x", " ", "F", "u", "n", "d">>>>, <<<<"*", "G", "r", "a", "n", "t", "*">>>>, <<<<"B", "o", "n", "d", " ", "R", "e", "d", "e", "m", "p", "t", "i", "o", "n", "*">>>>,
      <<<<"L", "a", "b", "o", "r", "e", "r", "s", "'", "*", "A", "n", "n", "u", "i", "t", "y", "*">>>>, <<<<"W", "a", "t", "e", "r", " ", "F", "u", "n", "d">>, <<"*", "g", "r", "a", "n", "t", "*">>>>, <<<<"*">>>> }

MatchCalls ==
    { [op |-> "matches_fund_list", fund_name |-> l, fund_list |-> fl] :
         l \in FundLabels, fl \in FundLists }

CategorizeCalls == { [op |-> "categorize_fund", fund_name |-> l] : l \in FundLabels }

\* fund_categories of the unit test; one whose categories overlap; none
FundCategoryTables ==
    << << <<<<"o", "p", "e", "r", "a", "t", "i", "n", "g">>, <<<<"C", "o", "r", "p", "o", "r", "a", "t", "e", " ", "F", "u", "n", "d">>, <<"V", "e", "h", "i", "c", "l", "e", " ", "T", "a", "x", " ", "F", "u", "n", "d">>>>>>,
          <<<<"e", "n", "t", "e", "r", "p", "r", "i", "s", "e">>, <<<<"W", "a", "t", "e", "r", " ", "F", "u", "n", "d">>>>>>,
          <<<<"g", "r", "a", "n", "t">>, <<<<"*", "G", "r", "a", "n", "t", "*">>>>>>,
          <<<<"d", "e", "b", "t">>, <<<<"B", "o", "n", "d", " ", "R", "e", "d", "e", "m", "p", "t", "i", "o", "n", "*">>>>>> >>,
       << <<<<"f", "e", "d", "e", "r", "a", "l">>, <<<<"F", "e", "d", "e", "r", "a", "l", "*">>>>>>,
          <<<<"g", "r", "a", "n", "t">>, <<<<"*", "G", "r", "a", "n", "t", "*">>>>>>,
          <<<<"e", "n", "t", "e", "r", "p", "r", "i", "s", "e">>, <<<<"W", "a", "t", "e", "r", " ", "F", "u", "n", "d">>, <<"*", "F", "u", "n", "d">>>>>> >>,
       <<>> >>

CallConfig(non_adjustable, threshold, fund_categories) ==
    [acronyms |-> <<>>, non_adjustable_departments |-> non_adjustable,
     grant_funded_threshold |-> threshold, fund_categories |-> fund_categories,
     non_operating_funds |-> <<>>]

\* the unit tests' configuration; entries written as the normalized names are;
\* a lower threshold and no non-adjustable department
CallConfigs ==
    { CallConfig({<<"F", "I", "N", "A", "N", "C", "E", " ", "G", "E", "N", "E", "R", "A", "L">>}, [num |-> 9, den |-> 10], FundCategoryTables[1]),
      CallConfig({<<"F", "i", "n", "a", "n", "c", "e", " ", "G", "e", "n", "e", "r", "a", "l">>, <<"P", "O", "L", "I", "C", "E">>}, [num |-> 9, den |-> 10], FundCategoryTables[2]),
      CallConfig({}, [num |-> 1, den |-> 2], FundCategoryTables[3]) }

InitCall ==
    /\ c_config \in CallConfigs
    /\ c_call \in SimulationCalls \cup MatchCalls \cup CategorizeCalls
    /\ c_result = <<>>
    /\ cpc = "input"
    /\ EnrichIdle
    /\ DetectIdle
    /\ RevcatIdle
    /\ TransformIdle
    /\ ValidatorIdle
    /\ PipelineIdle

DetermineSimulationConfig ==
    /\ cpc = "input"
    /\ c_call.op = "determine_simulation_config"
    /\ c_result' = determine_simulation_config(c_config, c_call.dept_name,
                                               c_call.fund_breakdown, c_call.total_amount)
    /\ cpc' = "done"
    /\ UNCHANGED <<c_config, c_call, enrichVars, detectVars, revcatVars,
                   transformVars, validatorVars, pipelineVars>>

MatchesFundList ==
    /\ cpc = "input"
    /\ c_call.op = "matches_fund_list"
    /\ c_result' = matches_fund_list(c_call.fund_name, c_call.fund_list)
    /\ cpc' = "done"
    /\ UNCHANGED <<c_config, c_call, enrichVars, detectVars, revcatVars,
                   transformVars, validatorVars, pipelineVars>>

CategorizeFund ==
    /\ cpc = "input"
    /\ c_call.op = "categorize_fund"
    /\ c_result' = categorize_fund(c_config, c_call.fund_name)
    /\ cpc' = "done"
    /\ UNCHANGED <<c_config, c_call, enrichVars, detectVars, revcatVars,
                   transformVars, validatorVars, pipelineVars>>

NextCall == DetermineSimulationConfig \/ MatchesFundList \/ CategorizeFund

SpecCall == InitCall /\ [][NextCall]_vars

Called(op) == cpc = "done" /\ c_call.op = op

\* the department name equals a configured entry when case is ignored
ListedIgnoringCase(transform_config, dept_name) ==
    \E entry \in transform_config.non_adjustable_departments :
        lower(entry) = lower(dept_name)

\* C11: a department whose name is listed in non_adjustable_departments,
\* compared case-insensitively, gets adjustable = false and
\* min_pct = max_pct = 1.0 whatever its fund mix is, also when more than the
\* grant threshold of its amount is in grant funds.
C11_NonAdjustableIgnoringCase ==
    (Called("determine_simulation_config")
       /\ ListedIgnoringCase(c_config, c_call.dept_name)) =>
        /\ c_result.adjustable = FALSE
        /\ c_result.min_pct = 100
        /\ c_result.max_pct = 100

\* sum(fb.amount for fb in fund_breakdown if "grant" in fb.fund_name.lower())
GrantAmount(fund_breakdown) ==
    SumSeq([i \in 1..Len(fund_breakdown) |->
              IF Contains(<<"g", "r", "a", "n", "t">>, lower(fund_breakdown[i].fund_name))
              THEN fund_breakdown[i].amount ELSE 0])

\* grant_amount / total_amount > threshold, the fraction being 0 when total_amount <= 0
GrantShareAbove(threshold, grant_amount, total_amount) ==
    /\ total_amount > 0
    /\ grant_amount * threshold.den > threshold.num * total_amount

\* C12: for a department that is not non-adjustable, determine_simulation_config
\* returns the 0.9-1.1 range exactly when grant_amount / total_amount is strictly
\* greater than the configured threshold (the fraction is 0 when
\* total_amount <= 0, grant funds are those whose name contains "grant" in any
\* case); otherwise it returns the 0.5-1.5 range with no constraints.
C12_GrantTiering ==
    (Called("determine_simulation_config")
       /\ ~ListedIgnoringCase(c_config, c_call.dept_name)) =>
        IF GrantShareAbove(c_config.grant_funded_threshold,
                           GrantAmount(c_call.fund_breakdown), c_call.total_amount)
        THEN /\ c_result.adjustable
             /\ c_result.min_pct = 90
             /\ c_result.max_pct = 110
        ELSE /\ c_result.adjustable
             /\ c_result.min_pct = 50
             /\ c_result.max_pct = 150
             /\ c_result.constraints = <<>>

\* the unit test's department: 950,000 of 1,000,000 in "Federal Grant", threshold 0.9
C12_Witness ==
    /\ Called("determine_simulation_config")
    /\ c_call.dept_name = <<"G", "r", "a", "n", "t", " ", "D", "e", "p", "t">>
    /\ c_call.total_amount = 1000000
    /\ GrantAmount(c_call.fund_breakdown) = 950000
    /\ c_config.grant_funded_threshold = [num |-> 9, den |-> 10]
    /\ c_result.min_pct = 90
    /\ c_result.max_pct = 110

\* the matching rule as the specification words it: every "*" is removed
\* from a wildcard pattern before the case-insensitive substring test
MatchesWithStarsRemoved(label, pattern) ==
    IF Contains(<<"*">>, pattern)
    THEN Contains(lower(RemoveAll(pattern, <<"*">>)), lower(label))
    ELSE label = pattern

\* C14: a pattern containing "*" matches a label exactly when the pattern with
\* its "*" characters removed is a case-insensitive substring of the label
\* ("Laborers'*Annuity*" is tested as "laborers'annuity"); a pattern without
\* "*" matches only a label equal to it, case-sensitively.
C14_StarsRemovedSubstring ==
    Called("matches_fund_list") =>
        c_result = (\E i \in 1..Len(c_call.fund_list) :
                       MatchesWithStarsRemoved(c_call.fund_name, c_call.fund_list[i]))

\* the configured categories, in iteration order, with a pattern matching the fund
MatchingCategories(transform_config, fund_name) ==
    SelectSeq(transform_config.fund_categories,
              LAMBDA entry : \E k \in 1..Len(entry[2]) :
                                matches_pattern(fund_name, entry[2][k]))

\* C15: categorize_fund returns the first category, in the iteration order of
\* fund_categories, that has a pattern matching the fund name, also when a
\* later category matches too, and "operating" when no category matches or
\* none is configured.
C15_FirstMatchingCategory ==
    Called("categorize_fund") =>
        LET matching == MatchingCategories(c_config, c_call.fund_name)
        IN IF matching = <<>> THEN c_result = <<"o", "p", "e", "r", "a", "t", "i", "n", "g">>
           ELSE c_result = matching[1][1]

\* "Federal Grant Fund" matches the federal, grant and enterprise categories
C15_Witness ==
    /\ Called("categorize_fund")
    /\ c_call.fund_name = <<"F", "e", "d", "e", "r", "a", "l", " ", "G", "r", "a", "n", "t", " ", "F", "u", "n", "d">>
    /\ Len(MatchingCategories(c_config, c_call.fund_name)) > 1
    /\ c_result = <<"f", "e", "d", "e", "r", "a", "l">>

(***************************************************************************)
(* Validation specification: BudgetValidator().validate on a document      *)
(* built as the validator tests build theirs (amounts in dollars).         *)
(***************************************************************************)
TestDepartment(id, name, code, amount, fund_amount, subcategories) ==
    [id |-> id, name |-> name, code |-> code, amount |-> amount,
     prior_year_amount |-> None, change_pct |-> None,
     fund_breakdown |-> <<[fund_id |-> <<"f", "u", "n", "d", "-", "l", "o", "c", "a", "l">>, fund_name |-> <<"C", "o", "r", "p", "o", "r", "a", "t", "e", " ", "F", "u", "n", "d">>,
                           amount |-> fund_amount]>>,
     subcategories |-> subcategories, simulation |-> DefaultSimulation, trend |-> None]

PoliceSubcategories(salaries, contracts) ==
    <<make_subcategory(<<"p", "o", "l", "i", "c", "e", "-", "s", "a", "l", "a", "r", "i", "e", "s">>, <<"S", "a", "l", "a", "r", "i", "e", "s", " ", "a", "n", "d", " ", "W", "a", "g", "e", "s">>, salaries),
      make_subcategory(<<"p", "o", "l", "i", "c", "e", "-", "c", "o", "n", "t", "r", "a", "c", "t", "s">>, <<"C", "o", "n", "t", "r", "a", "c", "t", "u", "a", "l", " ", "S", "e", "r", "v", "i", "c", "e", "s">>, contracts)>>

\* the fixture's Police department; its first subcategory set to 1; its fund
\* breakdown set to 1; without subcategories; a one-dollar rounding drift;
\* two subcategories sharing an id
PoliceVariants ==
    { TestDepartment(<<"d", "e", "p", "t", "-", "p", "o", "l", "i", "c", "e">>, <<"P", "o", "l", "i", "c", "e">>, <<"0", "5", "7">>, 2000, 2000, PoliceSubcategories(1500, 500)),
      TestDepartment(<<"d", "e", "p", "t", "-", "p", "o", "l", "i", "c", "e">>, <<"P", "o", "l", "i", "c", "e">>, <<"0", "5", "7">>, 2000, 2000, PoliceSubcategories(1, 500)),
      TestDepartment(<<"d", "e", "p", "t", "-", "p", "o", "l", "i", "c", "e">>, <<"P", "o", "l", "i", "c", "e">>, <<"0", "5", "7">>, 2000, 1, PoliceSubcategories(1500, 500)),
      TestDepartment(<<"d", "e", "p", "t", "-", "p", "o", "l", "i", "c", "e">>, <<"P", "o", "l", "i", "c", "e">>, <<"0", "5", "7">>, 2000, 2000, <<>>),
      TestDepartment(<<"d", "e", "p", "t", "-", "p", "o", "l", "i", "c", "e">>, <<"P", "o", "l", "i", "c", "e">>, <<"0", "5", "7">>, 2000, 1999, PoliceSubcategories(1500, 499)),
      TestDepartment(<<"d", "e", "p", "t", "-", "p", "o", "l", "i", "c", "e">>, <<"P", "o", "l", "i", "c", "e">>, <<"0", "5", "7">>, 2000, 2000, PoliceSubcategories(1500, 498)),
      TestDepartment(<<"d", "e", "p", "t", "-", "p", "o", "l", "i", "c", "e">>, <<"P", "o", "l", "i", "c", "e">>, <<"0", "5", "7">>, 2000, 2000,
          <<make_subcategory(<<"p", "o", "l", "i", "c", "e", "-", "s", "a", "l", "a", "r", "i", "e", "s">>, <<"S", "a", "l", "a", "r", "i", "e", "s", " ", "a", "n", "d", " ", "W", "a", "g", "e", "s">>, 1500),
            make_subcategory(<<"p", "o", "l", "i", "c", "e", "-", "s", "a", "l", "a", "r", "i", "e", "s">>, <<"O", "v", "e", "r", "t", "i", "m", "e">>, 500)>>) }

FireVariants ==
    { TestDepartment(<<"d", "e", "p", "t", "-", "f", "i", "r", "e">>, <<"F", "i", "r", "e">>, <<"0", "7", "0">>, 1000, 1000,
          <<make_subcategory(<<"f", "i", "r", "e", "-", "s", "a", "l", "a", "r", "i", "e", "s">>, <<"S", "a", "l", "a", "r", "i", "e", "s", " ", "a", "n", "d", " ", "W", "a", "g", "e", "s">>, 900),
            make_subcategory(<<"f", "i", "r", "e", "-", "e", "q", "u", "i", "p", "m", "e", "n", "t">>, <<"E", "q", "u", "i", "p", "m", "e", "n", "t">>, 100)>>),
      TestDepartment(<<"d", "e", "p", "t", "-", "f", "i", "r", "e">>, <<"F", "i", "r", "e">>, <<"0", "7", "0">>, 1000, 1000,
          <<make_subcategory(<<"f", "i", "r", "e", "-", "s", "a", "l", "a", "r", "i", "e", "s">>, <<"S", "a", "l", "a", "r", "i", "e", "s", " ", "a", "n", "d", " ", "W", "a", "g", "e", "s">>, 900)>>),
      [TestDepartment(<<"d", "e", "p", "t", "-", "f", "i", "r", "e">>, <<"F", "i", "r", "e">>, <<"0", "7", "0">>, 0, 0, <<>>) EXCEPT !.fund_breakdown = <<>>] }

ValidatedDepartmentLists ==
    { <<p, f>> : p \in PoliceVariants, f \in FireVariants }
    \cup { <<p>> : p \in PoliceVariants }
    \cup { <<>>, <<CHOOSE p \in PoliceVariants : AmountSumOf(p.subcategories) = 2000
                                                  /\ AmountSumOf(p.fund_breakdown) = 2000
                                                  /\ ~HasDuplicates(IdsOf(p.subcategories)),
                   CHOOSE p \in PoliceVariants : p.subcategories = <<>>>> }

\* no revenue; revenue matching the appropriations; a total that does not
\* match its sources, with a grant estimate; a total one dollar and two
\* dollars above its sources
ValidatedRevenues ==
    { None,
      make_revenue(<<make_revenue_source(<<"r", "e", "v", "e", "n", "u", "e", "-", "p", "r", "o", "p", "e", "r", "t", "y", "-", "t", "a", "x">>, <<"P", "r", "o", "p", "e", "r", "t", "y", " ", "T", "a", "x">>, 3000, <<>>)>>),
      Some([by_source |-> <<make_revenue_source(<<"r", "e", "v", "e", "n", "u", "e", "-", "p", "r", "o", "p", "e", "r", "t", "y", "-", "t", "a", "x">>, <<"P", "r", "o", "p", "e", "r", "t", "y", " ", "T", "a", "x">>, 500, <<>>)>>,
            by_fund |-> <<>>, total_revenue |-> 700, local_revenue_only |-> TRUE,
            grant_revenue_estimated |-> Some(40)]),
      Some([by_source |-> <<make_revenue_source(<<"r", "e", "v", "e", "n", "u", "e", "-", "p", "r", "o", "p", "e", "r", "t", "y", "-", "t", "a", "x">>, <<"P", "r", "o", "p", "e", "r", "t", "y", " ", "T", "a", "x">>, 3000, <<>>)>>,
            by_fund |-> <<>>, total_revenue |-> 3001, local_revenue_only |-> TRUE,
            grant_revenue_estimated |-> None]),
      Some([by_source |-> <<make_revenue_source(<<"r", "e", "v", "e", "n", "u", "e", "-", "p", "r", "o", "p", "e", "r", "t", "y", "-", "t", "a", "x">>, <<"P", "r", "o", "p", "e", "r", "t", "y", " ", "T", "a", "x">>, 3000, <<>>)>>,
            by_fund |-> <<>>, total_revenue |-> 3002, local_revenue_only |-> TRUE,
            grant_revenue_estimated |-> None]) }

\* how far metadata.total_appropriations and the fund summary are off the
\* sum of the departments
TotalOffsets == {0, 1, 2}

TestDocument(departments, total_offset, fund_offset, revenue) ==
    [metadata |->
        [entity_id |-> "city-of-chicago", fiscal_year |-> <<"f", "y", "2", "0", "2", "5">>,
         gross_appropriations |-> AmountSumOf(departments), accounting_adjustments |-> 0,
         total_appropriations |-> AmountSumOf(departments) + total_offset,
         operating_appropriations |-> None, fund_category_breakdown |-> <<>>,
         total_revenue |-> IF revenue = None THEN None ELSE Some(revenue.value.total_revenue),
         revenue_surplus_deficit |-> None],
     appropriations |->
        [by_department |-> departments,
         by_fund |-> <<[id |-> <<"f", "u", "n", "d", "-", "l", "o", "c", "a", "l">>, name |-> <<"C", "o", "r", "p", "o", "r", "a", "t", "e", " ", "F", "u", "n", "d">>,
                        amount |-> AmountSumOf(departments) + total_offset + fund_offset,
                        fund_type |-> "operating"]>>],
     revenue |-> revenue, schema_version |-> "1.0.0"]

\* how far the fund summary is off metadata.total_appropriations
FundOffsets == {0, 1, 2}

TestDocuments ==
    { TestDocument(departments, total_offset, fund_offset, revenue) :
         departments \in ValidatedDepartmentLists, total_offset \in TotalOffsets,
         fund_offset \in FundOffsets, revenue \in ValidatedRevenues }

PriorDepartments(police, second_name, second) ==
    [metadata |-> [total_appropriations |-> police + second],
     appropriations |->
        [by_department |-> <<[name |-> <<"P", "o", "l", "i", "c", "e">>, amount |-> police],
                             [name |-> second_name, amount |-> second]>>]]

\* prior-year documents: Police at 1 with a department that no longer
\* exists; Police at exactly twice the fixture's amount; Police just above
\* twice the fixture's amount with a Fire department of 0
PriorDocuments ==
    { PriorDocument, PriorDepartments(4000, <<"F", "i", "r", "e">>, 1000), PriorDepartments(4001, <<"F", "i", "r", "e">>, 0) }

\* the number of validate calls made on one validator instance
MaxCalls == 2

\* documents validated by the later calls: the sound fixture, the fixture
\* with a subcategory error, the fixture with a fund-breakdown warning
LaterDocuments ==
    { TestDocument(<<police, fire>>, 0, 0, None) :
         police \in { p \in PoliceVariants :
                         /\ ~HasDuplicates(IdsOf(p.subcategories))
                         /\ p.subcategories # <<>>
                         /\ \/ AmountSumOf(p.subcategories) = 2000
                            \/ AmountSumOf(p.subcategories) = 501 /\ AmountSumOf(p.fund_breakdown) = 2000 },
         fire \in { f \in FireVariants : AmountSumOf(f.subcategories) = 1000 } }

InitValidate ==
    /\ v_data \in TestDocuments
    /\ v_prior \in {None} \cup { Some(prior) : prior \in PriorDocuments }
    /\ v_valid = FALSE
    /\ v_errors = <<>>
    /\ v_warnings = <<>>
    /\ v_returned = <<>>
    /\ vpc = "input"
    /\ EnrichIdle
    /\ DetectIdle
    /\ RevcatIdle
    /\ TransformIdle
    /\ CallIdle
    /\ PipelineIdle

\* result = validator.validate(v_data, v_prior)
ValidateDocument ==
    /\ vpc = "input"
    /\ LET report == validate_on([errors |-> v_errors, warnings |-> v_warnings],
                              v_data, v_prior)
       IN /\ v_valid' = report.valid
          /\ v_errors' = report.errors
          /\ v_warnings' = report.warnings
          /\ v_returned' = Append(v_returned, report.valid)
    /\ vpc' = "validated"
    /\ UNCHANGED <<v_data, v_prior, enrichVars, detectVars, revcatVars,
                   transformVars, callVars, pipelineVars>>

\* the caller hands the same validator instance another document
LoadDocument ==
    /\ vpc = "validated"
    /\ Len(v_returned) < MaxCalls
    /\ v_data' \in LaterDocuments
    /\ v_prior' \in {None, Some(PriorDocument)}
    /\ vpc' = "input"
    /\ UNCHANGED <<v_valid, v_errors, v_warnings, v_returned, enrichVars, detectVars,
                   revcatVars, transformVars, callVars, pipelineVars>>

NextValidate == ValidateDocument \/ LoadDocument

SpecValidate == InitValidate /\ [][NextValidate]_vars

\* the department's fund_breakdown is off its amount by more than the tolerance
FundBreakdownDrift(dept) ==
    /\ dept.fund_breakdown # <<>>
    /\ Abs(AmountSumOf(dept.fund_breakdown) - dept.amount) > tolerance

\* a document that is sound except for a fund_breakdown drift
OnlyFundBreakdownDefect(data) ==
    LET depts == data.appropriations.by_department
    IN /\ AmountSumOf(depts) = data.metadata.total_appropriations
       /\ AmountSumOf(data.appropriations.by_fund) = data.metadata.total_appropriations
       /\ Cardinality({depts[i].id : i \in 1..Len(depts)}) = Len(depts)
       /\ \A i \in 1..Len(depts) :
             /\ AmountSumOf(depts[i].subcategories) = depts[i].amount
             /\ Cardinality({depts[i].subcategories[k].id :
                                 k \in 1..Len(depts[i].subcategories)})
                   = Len(depts[i].subcategories)
       /\ data.revenue = None
       /\ \E i \in 1..Len(depts) : FundBreakdownDrift(depts[i])

\* C13: validate returns true exactly when the errors list it produced is
\* empty; warnings never make it fail, so a document whose only defect is a
\* department whose fund_breakdown does not sum to its amount passes with a
\* fund-breakdown warning.
C13_PassIffNoErrors ==
    vpc = "validated" =>
        /\ v_valid = (v_errors = <<>>)
        /\ OnlyFundBreakdownDefect(v_data) =>
              /\ v_valid
              /\ \E k \in 1..Len(v_warnings) : v_warnings[k].check = "fund_breakdown_sum"

\* the fixture with the Police fund breakdown set to 1: passes with a warning
C13_Witness ==
    /\ vpc = "validated"
    /\ OnlyFundBreakdownDefect(v_data)
    /\ v_valid
    /\ v_errors = <<>>
    /\ v_warnings # <<>>

\* C20: the subcategory-sum check covers every department: whenever the sum of
\* a department's subcategory amounts differs from the department's amount by
\* more than the tolerance, validate records a subcategory error for it and
\* fails, also when the department has a non-zero amount and no subcategories.
C20_SubcategorySumEveryDepartment ==
    vpc = "validated" =>
        \A i \in 1..Len(v_data.appropriations.by_department) :
            LET dept == v_data.appropriations.by_department[i]
            IN Abs(AmountSumOf(dept.subcategories) - dept.amount) > tolerance =>
                  /\ ~v_valid
                  /\ \E k \in 1..Len(v_errors) :
                        /\ v_errors[k].check = "subcategory_sum"
                        /\ v_errors[k].name = dept.name

(***************************************************************************)
(* Year-over-year comparison and totals of the returned document           *)
(***************************************************************************)
TransformEnded == tpc \in {"transformed", "validated", "raised"}

ReturnedDepartments == t_result.data.appropriations.by_department

\* the prior table's amount column under the patterns of the year the caller named
PriorColumnOfNamedYear ==
    detect_amount_column(ColumnsOf(t_prior.value), t_prior.value.fiscal_year)

\* the prior rows whose normalized department name is the given one
PriorRowsNamed(dept_name) ==
    SelectSeq(t_prior.value.rows,
              LAMBDA r : title_case_with_acronyms(t_config.acronyms, r.department_name)
                            = dept_name)

\* C16: the prior year is the one the caller names, never the current year
\* minus one: whenever the table has an amount column for the fiscal year and
\* the prior table has one under the patterns of its own fiscal year, also a
\* non-adjacent one, transform resolves that column instead of failing, and
\* every department with prior rows gets a prior_year_amount.
C16_PriorYearNamedByCaller ==
    (TransformEnded /\ t_prior # None
       /\ detect_amount_column(ColumnsOf(df), t_year) # ColumnError(ColumnsOf(df))
       /\ PriorColumnOfNamedYear # ColumnError(ColumnsOf(t_prior.value))) =>
        /\ t_result # Raised("ValueError")
        /\ t_result.ok =>
              \A i \in 1..Len(ReturnedDepartments) :
                  PriorRowsNamed(ReturnedDepartments[i].name) # <<>> =>
                      ReturnedDepartments[i].prior_year_amount # None

ReturnedFundBreakdowns ==
    Flatten([i \in 1..Len(ReturnedDepartments) |-> ReturnedDepartments[i].fund_breakdown])

\* C18: operating_appropriations is total_appropriations minus the
\* fund_breakdown amounts of every fund matching non_operating_funds; when
\* that list is absent or empty it is the "operating" total of
\* fund_category_breakdown; it is None only when fund_category_breakdown is
\* empty as well.
C18_OperatingAppropriations ==
    HasReturned(tpc) =>
        LET metadata == t_result.data.metadata
            breakdown == metadata.fund_category_breakdown
            listed == SelectSeq(ReturnedFundBreakdowns,
                         LAMBDA fb : matches_fund_list(fb.fund_name,
                                                       t_config.non_operating_funds))
        IN IF t_config.non_operating_funds # <<>>
           THEN metadata.operating_appropriations
                   = Some(metadata.total_appropriations - AmountSumOf(listed))
           ELSE IF breakdown = <<>>
           THEN metadata.operating_appropriations = None
           ELSE /\ metadata.operating_appropriations # None
                /\ \A k \in 1..Len(breakdown) :
                      breakdown[k][1] = <<"o", "p", "e", "r", "a", "t", "i", "n", "g">> =>
                          metadata.operating_appropriations = Some(breakdown[k][2])

\* C19: in every returned document the amounts of fund_category_breakdown sum
\* to total_appropriations, every fund_breakdown entry being counted in exactly
\* one category ("operating" when no configured category matches).
C19_CategoryBreakdownSumsToTotal ==
    HasReturned(tpc) =>
        LET metadata == t_result.data.metadata
            breakdown == metadata.fund_category_breakdown
        IN /\ SumSeq([k \in 1..Len(breakdown) |-> breakdown[k][2]])
                 = metadata.total_appropriations
           /\ SumSeq([k \in 1..Len(breakdown) |-> breakdown[k][2]])
                 = AmountSumOf(ReturnedFundBreakdowns)

(***************************************************************************)
(* Cross-year checks, tolerance and repeated calls of the validator        *)
(***************************************************************************)
HasFinding(findings, check) == \E k \in 1..Len(findings) : findings[k].check = check

HasFindingFor(findings, check, name) ==
    \E k \in 1..Len(findings) : findings[k].check = check /\ findings[k].name = name

CrossYearChecks == {"large_change", "new_departments", "removed_departments"}

NamesOf(data) ==
    {data.appropriations.by_department[i].name :
        i \in 1..Len(data.appropriations.by_department)}

\* a department of both documents whose amount moved by more than 50 percent
\* of a positive prior amount
ChangedByMoreThanHalf(current, prior, name) ==
    \E i \in 1..Len(current.appropriations.by_department) :
    \E j \in 1..Len(prior.appropriations.by_department) :
        LET cur == current.appropriations.by_department[i]
            old == prior.appropriations.by_department[j]
        IN /\ cur.name = name /\ old.name = name
           /\ old.amount > 0
           /\ Abs(cur.amount - old.amount) * 100 > 50 * old.amount

DepartmentSumDifference(data) ==
    Abs(AmountSumOf(data.appropriations.by_department) - data.metadata.total_appropriations)

FundSummaryDifference(data) ==
    Abs(AmountSumOf(data.appropriations.by_fund) - data.metadata.total_appropriations)

RevenueSumDifference(data) ==
    Abs(AmountSumOf(data.revenue.value.by_source) - data.revenue.value.total_revenue)

SubcategoryDifference(dept) == Abs(AmountSumOf(dept.subcategories) - dept.amount)

\* the departments of the document that list subcategories
WithSubcategories(data) ==
    SelectSeq(data.appropriations.by_department, LAMBDA d : d.subcategories # <<>>)

\* C21: cross-year checks only warn: validate(document, prior) returns the
\* same boolean and the same errors as validate(document); departments are
\* matched by name, and a change of more than 50 percent, a department only
\* in the current document and a department only in the prior document each
\* add a warning and never an error.
C21_CrossYearOnlyWarns ==
    (vpc = "validated" /\ v_prior # None) =>
        /\ v_valid = validate(v_data, None).valid
        /\ v_errors = validate(v_data, None).errors
        /\ \A k \in 1..Len(v_errors) : v_errors[k].check \notin CrossYearChecks
        /\ \A name \in NamesOf(v_data) \cap NamesOf(v_prior.value) :
              ChangedByMoreThanHalf(v_data, v_prior.value, name)
                 <=> HasFindingFor(v_warnings, "large_change", name)
        /\ (NamesOf(v_data) \ NamesOf(v_prior.value) # {})
              <=> HasFinding(v_warnings, "new_departments")
        /\ (NamesOf(v_prior.value) \ NamesOf(v_data) # {})
              <=> HasFinding(v_warnings, "removed_departments")

\* a sound document validated against a prior year in which Police was at 1
\* and Streets still existed: it passes with all three cross-year warnings
C21_Witness ==
    /\ vpc = "validated"
    /\ v_prior = Some(PriorDocument)
    /\ v_valid
    /\ v_errors = <<>>
    /\ HasFindingFor(v_warnings, "large_change", <<"P", "o", "l", "i", "c", "e">>)
    /\ HasFinding(v_warnings, "new_departments")
    /\ HasFinding(v_warnings, "removed_departments")

(***************************************************************************)
(* Revenue categorization: falling through the stages                      *)
(***************************************************************************)
\* the fund-based categories, in configuration order, that
\* display_categories lists and of which some pattern matches the fund label
MatchingFundCategories(rev_config, fund_name) ==
    LET Hit(entry) == /\ entry[1] \in DictKeys(rev_config.display_categories)
                      /\ \E k \in 1..Len(entry[2]) : matches_pattern(fund_name, entry[2][k])
    IN SelectSeq(rev_config.fund_based_categories, Hit)

\* the categories of a pattern table of which some pattern matches the label,
\* displayed or not
MatchingKeys(categories, label) ==
    {categories[i][1] : i \in {k \in 1..Len(categories) :
                                  \E p \in 1..Len(categories[k][2]) :
                                      matches_pattern(label, categories[k][2][p])}}

\* the category the trimmed category field maps to, as a list of at most one
MappedKey(rev_config, revenue_category) ==
    LET hits == SelectSeq(rev_config.category_field_mapping,
                          LAMBDA entry : entry[1] = Strip(revenue_category, " "))
    IN IF Strip(revenue_category, " ") = <<>> THEN <<>>
       ELSE [i \in 1..Len(hits) |-> hits[i][2]]

\* C22: revenue categorization falls through stage by stage: a category key
\* that is not a key of display_categories counts as unmatched at its stage
\* (source override, then category-field mapping, then fund-based pattern)
\* and resolution continues with the next stage; a row with a blank category
\* field goes to the fund-based stage, and a row that no stage resolves gets
\* "uncategorized" with revenue_type "other".
C22_FallsThroughStages ==
    rpc = "done" =>
        LET display == rc_config.display_categories
            overrides == MatchingOverrides(rc_config, rc_row[3])
            mapped == SelectSeq(MappedKey(rc_config, rc_row[1]),
                                LAMBDA key : key \in DictKeys(display))
            funds == MatchingFundCategories(rc_config, rc_row[2])
        IN overrides = <<>> =>
              IF mapped # <<>>
              THEN rc_result = <<mapped[1], revenue_type_of(display, mapped[1])>>
              ELSE IF funds # <<>>
              THEN rc_result = <<funds[1][1], revenue_type_of(display, funds[1][1])>>
              ELSE rc_result = <<<<"u", "n", "c", "a", "t", "e", "g", "o", "r", "i", "z", "e", "d">>, "other">>

\* a property-tax source with a mapped category field, neither category in
\* display_categories, booked in the water fund: it ends in the fund stage
C22_Witness ==
    /\ rpc = "done"
    /\ rc_row = <<<<" ", "F", "e", "e", "s", " ">>, <<"W", "a", "t", "e", "r", " ", "F", "u", "n", "d">>, <<"P", "r", "o", "p", "e", "r", "t", "y", " ", "T", "a", "x", " ", "L", "e", "v", "y">>>>
    /\ MatchingKeys(rc_config.source_overrides, rc_row[3]) # {}
    /\ MatchingKeys(rc_config.source_overrides, rc_row[3])
          \cap DictKeys(rc_config.display_categories) = {}
    /\ MappedKey(rc_config, rc_row[1]) = <<<<"l", "i", "c", "e", "n", "s", "e", "s">>>>
    /\ <<"l", "i", "c", "e", "n", "s", "e", "s">> \notin DictKeys(rc_config.display_categories)
    /\ rc_result = <<<<"w", "a", "t", "e", "r", "_", "s", "e", "w", "e", "r">>, "enterprise">>

(***************************************************************************)
(* Totals and revenue cross-references of the returned document            *)
(***************************************************************************)
\* C23: in every document returned by transform gross_appropriations >= 0,
\* accounting_adjustments <= 0 and total_appropriations is their sum, for any
\* mix of positive, zero and negative input amounts.
C23_GrossAdjustmentsTotal ==
    HasReturned(tpc) =>
        LET metadata == t_result.data.metadata
        IN /\ metadata.gross_appropriations >= 0
           /\ metadata.accounting_adjustments <= 0
           /\ metadata.total_appropriations
                 = metadata.gross_appropriations + metadata.accounting_adjustments

\* a returned document with a department above and a department below zero
C23_Witness ==
    /\ HasReturned(tpc)
    /\ t_result.data.metadata.gross_appropriations > 0
    /\ t_result.data.metadata.accounting_adjustments < 0
    /\ \E i \in 1..Len(ReturnedDepartments) : ReturnedDepartments[i].amount < 0

\* C24: when transform is given non-empty revenue records,
\* revenue.total_revenue is the sum of the by_source amounts,
\* metadata.total_revenue equals it and metadata.revenue_surplus_deficit is
\* total_revenue minus total_appropriations; when the revenue records are
\* absent or empty, revenue and both metadata fields are None.
C24_RevenueCrossReferences ==
    HasReturned(tpc) =>
        LET metadata == t_result.data.metadata
            revenue == t_result.data.revenue
        IN IF t_revenue # None /\ t_revenue.value.rows # <<>>
           THEN /\ revenue # None
                /\ revenue.value.total_revenue = AmountSumOf(revenue.value.by_source)
                /\ metadata.total_revenue = Some(revenue.value.total_revenue)
                /\ metadata.revenue_surplus_deficit
                      = Some(revenue.value.total_revenue - metadata.total_appropriations)
           ELSE /\ revenue = None
                /\ metadata.total_revenue = None
                /\ metadata.revenue_surplus_deficit = None

\* revenue of two categories returned next to appropriations with a negative
\* department, so that net and gross appropriations differ
C24_Witness ==
    /\ HasReturned(tpc)
    /\ t_result.data.revenue # None
    /\ Len(t_result.data.revenue.value.by_source) >= 2
    /\ t_result.data.metadata.total_revenue = Some(AmountSumOf(t_result.data.revenue.value.by_source))
    /\ t_result.data.metadata.accounting_adjustments < 0
    /\ t_result.data.metadata.revenue_surplus_deficit # None

\* C25: the department-sum, subcategory-sum, fund-summary-sum and revenue
\* source-sum checks report a mismatch only when the absolute difference is
\* strictly greater than the tolerance: with the default tolerance of 1 a
\* difference of exactly 1 passes and a difference of 2 is an error.
C25_InclusiveTolerance ==
    vpc = "validated" =>
        /\ HasFinding(v_errors, "department_sum") <=> DepartmentSumDifference(v_data) > tolerance
        /\ HasFinding(v_errors, "fund_summary_sum") <=> FundSummaryDifference(v_data) > tolerance
        /\ \A i \in 1..Len(WithSubcategories(v_data)) :
              LET dept == WithSubcategories(v_data)[i]
              IN (\E k \in 1..Len(WithSubcategories(v_data)) :
                     /\ WithSubcategories(v_data)[k].name = dept.name
                     /\ SubcategoryDifference(WithSubcategories(v_data)[k]) > tolerance)
                 <=> HasFindingFor(v_errors, "subcategory_sum", dept.name)
        /\ v_data.revenue # None =>
              (HasFinding(v_errors, "revenue_sum") <=> RevenueSumDifference(v_data) > tolerance)
        /\ v_data.revenue = None => ~HasFinding(v_errors, "revenue_sum")

\* all four sums off by exactly 1: the document passes without an error
C25_Witness ==
    /\ vpc = "validated"
    /\ DepartmentSumDifference(v_data) = 1
    /\ FundSummaryDifference(v_data) = 1
    /\ v_data.revenue # None
    /\ RevenueSumDifference(v_data) = 1
    /\ \E i \in 1..Len(WithSubcategories(v_data)) :
          SubcategoryDifference(WithSubcategories(v_data)[i]) = 1
    /\ v_valid
    /\ v_errors = <<>>

\* C29: a validator's report reflects only its latest call: after any
\* sequence of validate calls on one instance its errors and warnings are
\* exactly the findings of the last validated document (and prior
\* document), so validating a clean document after a failing one returns
\* true with an empty errors list.
C29_ReportOfLatestCall ==
    vpc = "validated" =>
        /\ v_errors = validate(v_data, v_prior).errors
        /\ v_warnings = validate(v_data, v_prior).warnings
        /\ v_valid = validate(v_data, v_prior).valid
        /\ v_returned[Len(v_returned)] = v_valid
        /\ validate(v_data, None).errors = <<>> => (v_valid /\ v_errors = <<>>)

\* the sound fixture validated, without prior year, right after a document
\* that failed: true, no errors, no warnings
C29_Witness ==
    /\ vpc = "validated"
    /\ Len(v_returned) = 2
    /\ ~v_returned[1]
    /\ v_returned[2]
    /\ v_prior = None
    /\ v_errors = <<>>
    /\ v_warnings = <<>>

(***************************************************************************)
(* Enrichment of a directory, and the shape of department trends           *)
(***************************************************************************)
\* the names of the year documents the directory held when enrich_entity was
\* called: the documents of year_data
YearDocumentNames == {<<"fy", fy>> : fy \in Keys(year_data)}

\* C26: enrichment of nothing is a no-op: enrich_with_trends on an empty
\* year set returns the empty set, and enrich_entity on a directory with no
\* year documents returns 0, writes no file and raises no error; otherwise
\* enrich_entity rewrites exactly one file per year document found and
\* returns that count.
C26_EnrichNothingIsNoOp ==
    /\ (Enriched /\ before = <<>>) => year_data = <<>>
    /\ epc = "entity_enriched" =>
          /\ e_return = Some(Cardinality(YearDocumentNames))
          /\ Len(e_writes) = Cardinality(YearDocumentNames)
          /\ Range(e_writes) = YearDocumentNames
          /\ {f.name : f \in YearFiles(e_dir)} = YearDocumentNames
          /\ Cardinality(YearFiles(e_dir)) = Cardinality(YearDocumentNames)
          /\ \A other \in e_dir \ YearFiles(e_dir) : {other} \in OtherFiles
          /\ year_data = <<>> => (e_return = Some(0) /\ e_writes = <<>>)

\* a directory that holds only the manifest: 0 returned, nothing written
C26_Witness ==
    /\ epc = "entity_enriched"
    /\ year_data = <<>>
    /\ e_dir # {}
    /\ e_return = Some(0)
    /\ e_writes = <<>>

StrictlyAscending(points) ==
    \A a, b \in 1..Len(points) : a < b => points[a].fiscal_year < points[b].fiscal_year

\* C30: every department trend produced by enrich_with_trends has strictly
\* increasing fiscal years, that is at most one point per fiscal year, and
\* the point of a document's own year carries that department's amount, also
\* when two departments of one year share a code under different names.
C30_OnePointPerYear ==
    Enriched =>
        \A i \in 1..Len(year_data) : \A j \in 1..Len(Departments(year_data[i].data)) :
            LET d == Departments(year_data[i].data)[j]
            IN d.trend # None =>
                  /\ StrictlyAscending(d.trend.points)
                  /\ \A k \in 1..Len(d.trend.points) :
                        d.trend.points[k].fiscal_year = year_data[i].fiscal_year
                           => d.trend.points[k].amount = d.amount

(***************************************************************************)
(* cli.py: the commands and all_command. Years are modelled by their       *)
(* number, as in the enrichment; an entity's output directory is the set   *)
(* of its fyNNNN.json files once it exists.                                *)
(***************************************************************************)
EntityIds == {"city-of-chicago", "cps"}

Entity(id, status, years) == [id |-> id, status |-> status, years |-> years]

Step(command, entity, year, prior_year) ==
    [command |-> command, entity |-> entity, year |-> year, prior_year |-> prior_year]

\* years.sort() of the keys of the datasets table
RECURSIVE SortedYears(_)
SortedYears(years) ==
    IF years = {} THEN <<>>
    ELSE LET first == CHOOSE y \in years : \A z \in years : y <= z
         IN <<first>> \o SortedYears(years \ {first})

ActiveEntities(config) == SelectSeq(config, LAMBDA entity : entity.status = "active")

\* mutant: the entity is enriched before its years are transformed
EntitySteps_enrich_first(entity) ==
    LET years == SortedYears(Range(entity.years))
    IN [i \in 1..Len(years) |-> Step("fetch", entity.id, Some(years[i]), None)]
       \o <<Step("enrich", entity.id, None, None)>>
       \o [i \in 1..Len(years) |->
              Step("transform", entity.id, Some(years[i]),
                   IF i > 1 THEN Some(years[i - 1]) ELSE None)]

\* the body of the entity loop: fetch every year, transform every year in
\* ascending order with the previous year of the list as prior year, enrich
EntitySteps(entity) ==
    LET years == SortedYears(Range(entity.years))
    IN [i \in 1..Len(years) |-> Step("fetch", entity.id, Some(years[i]), None)]
       \o [i \in 1..Len(years) |->
              Step("transform", entity.id, Some(years[i]),
                   IF i > 1 THEN Some(years[i - 1]) ELSE None)]
       \o <<Step("enrich", entity.id, None, None)>>

\* the commands all_command runs when none of them fails
all_command_steps(config) ==
    Flatten([i \in 1..Len(ActiveEntities(config)) |-> EntitySteps(ActiveEntities(config)[i])])
    \o <<Step("manifest", None, None, None), Step("validate", None, None, None)>>

\* fetch_command: the raw directory below the entity's output directory is
\* made once the extractor delivered
fetch_command(output, entity, fetched) ==
    IF fetched THEN [code |-> 0, output |-> [output EXCEPT ![entity].exists = TRUE]]
    ELSE [code |-> 1, output |-> output]

\* mutant: the document is saved before it is validated
transform_command_save_first(output, entity, year, result) ==
    IF ~result.ok THEN [code |-> 1, output |-> output]
    ELSE [code |-> IF ~validate(result.data, None).valid
                      /\ validate(result.data, None).errors # <<>> THEN 1 ELSE 0,
          output |-> [output EXCEPT ![entity] =
                        [exists |-> TRUE,
                         files |-> WriteFile(@.files, <<"fy", year>>,
                                             model_dump_json(result.data))]]]

\* transform_command after the raw tables are loaded: result is what
\* transformer.transform returned or raised
transform_command(output, entity, year, result) ==
    IF ~result.ok THEN [code |-> 1, output |-> output]
    ELSE IF ~validate(result.data, None).valid /\ validate(result.data, None).errors # <<>>
    THEN [code |-> 1, output |-> output]
    ELSE [code |-> 0,
          output |-> [output EXCEPT ![entity] =
                        [exists |-> TRUE,
                         files |-> WriteFile(@.files, <<"fy", year>>,
                                             model_dump_json(result.data))]]]

enrich_command(output, entity) ==
    IF ~output[entity].exists THEN [code |-> 1, output |-> output]
    ELSE [code |-> 0,
          output |-> [output EXCEPT ![entity].files = enrich_entity(@).dir]]

\* available_years of one entity: the stems of its fy*.json files, latest first
AvailableYears(directory) ==
    LET ascending == SortedByName(YearFiles(directory.files))
    IN [i \in 1..Len(ascending) |-> ascending[Len(ascending) + 1 - i].name[2]]

generate_manifest(config, output, manifest, written) ==
    IF written
    THEN [code |-> 0,
          manifest |-> Some([i \in 1..Len(config) |->
                               [id |-> config[i].id,
                                available_years |->
                                   IF output[config[i].id].exists
                                   THEN AvailableYears(output[config[i].id]) ELSE <<>>]])]
    ELSE [code |-> 1, manifest |-> manifest]

\* validate_command: every fy*.json below output is parsed and validated
validate_command(output) ==
    LET json_files == UNION {YearFiles(output[entity].files) : entity \in EntityIds}
    IN IF \A file \in json_files : validate(BudgetDataFromJson(file.text), None).errors = <<>>
       THEN 0 ELSE 1

(***************************************************************************)
(* Pipeline specification: all_command over a configuration, with the      *)
(* outcome of every fetch and of every transform chosen by the environment *)
(***************************************************************************)
YearLists == { <<>>, <<2025>>, <<2025, 2024>>, <<2023, 2025>> }

PipelineConfigs ==
    { <<Entity("city-of-chicago", "active", years)>> : years \in YearLists }
    \cup { <<Entity("city-of-chicago", "active", years), Entity("cps", status, <<2025>>)>> :
              years \in YearLists, status \in {"active", "coming_soon"} }
    \cup { <<Entity("cps", "coming_soon", <<2025>>)>> }

\* what transformer.transform hands back for a year: an error, or one of the
\* sound, failing and warning-only documents
TransformResults(year) ==
    {Raised("ValueError")}
    \cup {Returned([data EXCEPT !.metadata.fiscal_year = year]) : data \in LaterDocuments}

\* a document of an earlier run that does not pass validation
StaleDocument ==
    [(CHOOSE data \in LaterDocuments : validate(data, None).errors # <<>>)
        EXCEPT !.metadata.fiscal_year = 2025]

NoDirectory == [exists |-> FALSE, files |-> {}]

\* the output directory before the run: empty, or with a file of an earlier
\* run for fy2025 of the first entity
InitialOutputs ==
    { [entity \in EntityIds |-> NoDirectory],
      [entity \in EntityIds |->
          IF entity = "city-of-chicago"
          THEN [exists |-> TRUE,
                files |-> {File(<<"fy", 2025>>, model_dump_json(StaleDocument))}]
          ELSE NoDirectory] }

InitAll ==
    /\ p_config \in PipelineConfigs
    /\ p_output \in InitialOutputs
    /\ p_manifest = None
    /\ p_log = <<>>
    /\ p_pc = 0
    /\ p_exit = None
    /\ EnrichIdle
    /\ DetectIdle
    /\ RevcatIdle
    /\ TransformIdle
    /\ CallIdle
    /\ ValidatorIdle

Logged(step, code, result) ==
    [command |-> step.command, entity |-> step.entity, year |-> step.year,
     prior_year |-> step.prior_year, code |-> code, result |-> result]

AtStep(command) ==
    /\ p_exit = None
    /\ p_pc \in 1..Len(all_command_steps(p_config))
    /\ all_command_steps(p_config)[p_pc].command = command

\* if command(...) != 0: return 1, else on to the next command
Continue(code) ==
    /\ p_exit' = IF code # 0 THEN Some(1) ELSE None
    /\ p_pc' = IF code # 0 THEN p_pc ELSE p_pc + 1

\* all_command up to the entity loop: no active entity ends it with 1
AllCommand ==
    /\ p_pc = 0
    /\ p_exit = None
    /\ IF ActiveEntities(p_config) = <<>>
       THEN p_exit' = Some(1) /\ p_pc' = 0
       ELSE p_exit' = None /\ p_pc' = 1
    /\ UNCHANGED <<p_config, p_output, p_manifest, p_log, enrichVars, detectVars,
                   revcatVars, transformVars, callVars, validatorVars>>

FetchCommand ==
    /\ AtStep("fetch")
    /\ \E fetched \in BOOLEAN :
          LET step == all_command_steps(p_config)[p_pc]
              done == fetch_command(p_output, step.entity, fetched)
          IN /\ p_output' = done.output
             /\ p_log' = Append(p_log, Logged(step, done.code, None))
             /\ Continue(done.code)
    /\ UNCHANGED <<p_config, p_manifest, enrichVars, detectVars,
                   revcatVars, transformVars, callVars, validatorVars>>

TransformCommand ==
    /\ AtStep("transform")
    /\ \E result \in TransformResults(all_command_steps(p_config)[p_pc].year.value) :
          LET step == all_command_steps(p_config)[p_pc]
              done == transform_command(p_output, step.entity, step.year.value, result)
          IN /\ p_output' = done.output
             /\ p_log' = Append(p_log, Logged(step, done.code, Some(result)))
             /\ Continue(done.code)
    /\ UNCHANGED <<p_config, p_manifest, enrichVars, detectVars,
                   revcatVars, transformVars, callVars, validatorVars>>

EnrichCommand ==
    /\ AtStep("enrich")
    /\ LET step == all_command_steps(p_config)[p_pc]
           done == enrich_command(p_output, step.entity)
       IN /\ p_output' = done.output
          /\ p_log' = Append(p_log, Logged(step, done.code, None))
          /\ Continue(done.code)
    /\ UNCHANGED <<p_config, p_manifest, enrichVars, detectVars,
                   revcatVars, transformVars, callVars, validatorVars>>

GenerateManifest ==
    /\ AtStep("manifest")
    /\ \E written \in BOOLEAN :
          LET step == all_command_steps(p_config)[p_pc]
              done == generate_manifest(p_config, p_output, p_manifest, written)
          IN /\ p_manifest' = done.manifest
             /\ p_log' = Append(p_log, Logged(step, done.code, None))
             /\ Continue(done.code)
    /\ UNCHANGED <<p_config, p_output, enrichVars, detectVars,
                   revcatVars, transformVars, callVars, validatorVars>>

\* the last command: all_command returns 0 when it succeeds
ValidateCommand ==
    /\ AtStep("validate")
    /\ LET step == all_command_steps(p_config)[p_pc]
           code == validate_command(p_output)
       IN /\ p_log' = Append(p_log, Logged(step, code, None))
          /\ p_exit' = IF code # 0 THEN Some(1) ELSE Some(0)
          /\ p_pc' = IF code # 0 THEN p_pc ELSE p_pc + 1
    /\ UNCHANGED <<p_config, p_output, p_manifest, enrichVars, detectVars,
                   revcatVars, transformVars, callVars, validatorVars>>

NextAll ==
    AllCommand \/ FetchCommand \/ TransformCommand \/ EnrichCommand
    \/ GenerateManifest \/ ValidateCommand

SpecAll == InitAll /\ [][NextAll]_vars

(***************************************************************************)
(* Ordering of the full pipeline and persistence of transformed documents  *)
(***************************************************************************)
ConfiguredEntity(id) == CHOOSE entity \in Range(p_config) : entity.id = id

\* an earlier successful run of the command for the entity (and year)
RanBefore(k, command, entity, year) ==
    \E j \in 1..(k - 1) :
        /\ p_log[j].command = command /\ p_log[j].entity = entity
        /\ p_log[j].year = year /\ p_log[j].code = 0

\* the year before this one in the entity's list of years, if any
PreviousYear(years, year) ==
    IF {y \in years : y < year} = {} THEN None
    ELSE Some(CHOOSE y \in years : y < year /\ \A z \in years : z < year => z <= y)

\* C27: in all_command every configured year of an active entity is fetched
\* before any is transformed, the years are transformed (and validated) in
\* ascending order, each with the previous year of the list as prior year,
\* the entity is enriched only after all its years were transformed
\* successfully, the manifest and the final validation run only after every
\* active entity was enriched, and as soon as a step fails no later step
\* runs and the command returns a non-zero exit code.
C27_PipelineOrdering ==
    /\ \A k \in 1..Len(p_log) :
          LET entry == p_log[k]
          IN /\ entry.code # 0 => (k = Len(p_log) /\ p_exit # None /\ p_exit.value # 0)
             /\ entry.command \in {"fetch", "transform", "enrich"} =>
                   \E i \in 1..Len(ActiveEntities(p_config)) :
                       ActiveEntities(p_config)[i].id = entry.entity
             /\ entry.command = "transform" =>
                   LET years == Range(ConfiguredEntity(entry.entity).years)
                   IN /\ \A y \in years : RanBefore(k, "fetch", entry.entity, Some(y))
                      /\ \A y \in years :
                            y < entry.year.value
                               <=> RanBefore(k, "transform", entry.entity, Some(y))
                      /\ entry.prior_year = PreviousYear(years, entry.year.value)
             /\ entry.command = "enrich" =>
                   \A y \in Range(ConfiguredEntity(entry.entity).years) :
                       RanBefore(k, "transform", entry.entity, Some(y))
             /\ entry.command \in {"manifest", "validate"} =>
                   \A i \in 1..Len(ActiveEntities(p_config)) :
                       RanBefore(k, "enrich", ActiveEntities(p_config)[i].id, None)
             /\ entry.command = "validate" => RanBefore(k, "manifest", None, None)
    /\ p_exit = Some(0) =>
          /\ p_log # <<>>
          /\ p_log[Len(p_log)].command = "validate"
          /\ p_log[Len(p_log)].code = 0
    /\ (p_exit # None /\ p_exit # Some(0)) =>
          \/ ActiveEntities(p_config) = <<>>
          \/ p_log # <<>> /\ p_log[Len(p_log)].code # 0

\* a complete run over two active entities, the first with its years
\* configured latest first
C27_Witness ==
    /\ p_exit = Some(0)
    /\ Len(ActiveEntities(p_config)) = 2
    /\ p_config[1].years = <<2025, 2024>>
    /\ \E k \in 1..Len(p_log) :
          /\ p_log[k].command = "transform"
          /\ p_log[k].year = Some(2025)
          /\ p_log[k].prior_year = Some(2024)

\* C28: transform_command writes the year's JSON file only after validate
\* reported no errors for the transformed document; when validate reports an
\* error (or transform raises) it returns 1 and leaves the output directory,
\* an existing file of that year included, unchanged; warnings alone do not
\* prevent the write.
C28_NoInvalidDocumentPersisted ==
    [][(Len(p_log') = Len(p_log) + 1 /\ p_log'[Len(p_log')].command = "transform") =>
          LET step == p_log'[Len(p_log')]
              result == step.result.value
          IN IF result.ok /\ validate(result.data, None).errors = <<>>
             THEN /\ step.code = 0
                  /\ File(<<"fy", step.year.value>>, model_dump_json(result.data))
                        \in p_output'[step.entity].files
             ELSE /\ step.code = 1
                  /\ p_output' = p_output]_vars

\* a transformed fy2025 document with a validation error was rejected and
\* the file of the earlier run is still in place
C28_Witness ==
    /\ p_log # <<>>
    /\ p_log[Len(p_log)].command = "transform"
    /\ p_log[Len(p_log)].year = Some(2025)
    /\ p_log[Len(p_log)].result.value.ok
    /\ validate(p_log[Len(p_log)].result.value.data, None).errors # <<>>
    /\ p_log[Len(p_log)].code = 1
    /\ p_exit = Some(1)
    /\ File(<<"fy", 2025>>, model_dump_json(StaleDocument))
          \in p_output[p_log[Len(p_log)].entity].files

====
